---- MODULE Spec2Model ----
(***************************************************************************)
(* A model of the xdd decision-diagram library: the node store with its    *)
(* hash-cons index, the BDD / ZDD apply operators with their memo tables,  *)
(* multiplicities, counting and k-th solution enumeration, garbage         *)
(* collection, and the permutation layer (swap / left rotation, compose).  *)
(*                                                                         *)
(* Rust vectors are 0-based; the sequences here are 1-based, so the node   *)
(* at address a (a >= 2) is nodes[a - 1] and a table indexed by address a  *)
(* is read at position a + 1.                                              *)
(***************************************************************************)
EXTENDS Integers, Sequences, FiniteSets, TLC

VARIABLES
    kind,            \* "BDD" | "ZDD" | "SWAP" | "ROT": which factory type this is
    irrelevant,      \* M::MULTIPLICITIES_IRRELEVANT: TRUE for NoMultiplicity, FALSE for u32
    nodes,           \* NodeList.nodes
    node_to_index,   \* NodeListWithFastLookup.node_to_index
    and_cache,       \* factory memo table of and
    or_cache,        \* factory memo table of or
    not_cache,       \* factory memo table of not
    i_cache,         \* permutation factory: memo table of swap / left_rot
    compose_cache,   \* permutation factory: memo table of compose
    pool,            \* the edges the caller holds (results of factory calls, and the sinks)
    last,            \* the last public call: its name, operands and result
    ops              \* number of public mutating calls made so far

vars == <<kind, irrelevant, nodes, node_to_index, and_cache, or_cache, not_cache,
          i_cache, compose_cache, pool, last, ops>>

(***************************************************************************)
(* Bounds of the model.                                                    *)
(***************************************************************************)
\* V: the number of variables the BDD / ZDD factory is constructed with.
NumVariables == 3
\* The number of public mutating calls in one behaviour of the BDD / ZDD factory.
MaxOps == 3
\* n: the number of permuted elements the permutation factory is constructed with.
NumElements == 3
\* The number of public mutating calls in one behaviour of the permutation factory.
MaxPermOps == 3
\* the largest number of permuted items of an encoding of variables
MaxEncoding == 6

(***************************************************************************)
(* Addresses, multiplicities, edges (NodeIndex) and nodes.                 *)
(***************************************************************************)
A_FALSE == 0
A_TRUE == 1
M_ONE == 1
\* Option::None of an address lookup
NoAddress == 0 - 1
\* Stands for usize::MAX, the "no solution" mark of the minimum-support tables: larger
\* than any number of variables.
usize_MAX == 1000000

EmptyMap == [x \in {} |-> x]

\* HashMap::insert
Insert(map, key, value) == (key :> value) @@ map

NodeIndex(a, m) == [address |-> a, multiplicity |-> m]
NodeIndex_FALSE == NodeIndex(A_FALSE, M_ONE)
NodeIndex_TRUE == NodeIndex(A_TRUE, M_ONE)

is_false(index) == index.address = A_FALSE
is_true(index) == index.address = A_TRUE
is_sink(index) == is_false(index) \/ is_true(index)

Node(v, lo, hi) == [variable |-> v, lo |-> lo, hi |-> hi]

RECURSIVE gcd_loop(_, _)
gcd_loop(min, max) == IF min > 0 THEN gcd_loop(max % min, min) ELSE max

compute_gcd(a, b) == IF a < b THEN gcd_loop(a, b) ELSE gcd_loop(b, a)

\* combine_or keeping the larger multiplicity
M_combine_or_larger(a, b) == IF irrelevant THEN M_ONE ELSE IF a >= b THEN a ELSE b
\* multiply keeping the first multiplicity
M_multiply_first(a, b) == IF irrelevant THEN M_ONE ELSE a
M_combine_or(a, b) == IF irrelevant THEN M_ONE ELSE a + b
M_multiply(a, b) == IF irrelevant THEN M_ONE ELSE a * b
\* (a/g, b/g, g)
\* M_gcd that reports the gcd and leaves a and b undivided
M_gcd_not_divided(a, b) ==
    IF irrelevant THEN <<M_ONE, M_ONE, M_ONE>> ELSE <<a, b, compute_gcd(a, b)>>

M_gcd(a, b) ==
    IF irrelevant THEN <<M_ONE, M_ONE, M_ONE>>
    ELSE LET g == compute_gcd(a, b) IN <<a \div g, b \div g, g>>
M_is_unity(m) == irrelevant \/ m = M_ONE

multiply(index, m) == NodeIndex(index.address, M_multiply(index.multiplicity, m))

(***************************************************************************)
(* The factory as a value threaded through the recursive operators, and    *)
(* the result of an operator: the factory afterwards and the edge.         *)
(***************************************************************************)
Factory == [nodes |-> nodes, node_to_index |-> node_to_index,
            and_cache |-> and_cache, or_cache |-> or_cache, not_cache |-> not_cache,
            i_cache |-> i_cache, compose_cache |-> compose_cache,
            n_cache |-> EmptyMap, lookup |-> TRUE]

R(f, res) == [f |-> f, res |-> res]

\* `let v = e;` followed by the statements Op, which name the value v
Then(e, Op(_)) == Op(e)

(***************************************************************************)
(* Node store: NodeListWithFastLookup over NodeList.                       *)
(***************************************************************************)
node(f, address) == f.nodes[address - 1]

\* find_node_index that finds no node
find_node_index_absent(f, n) == NoAddress

\* NodeList::find_node_index: the address of the first position that holds n
NodeList_find_node_index(ns, n) ==
    IF \E p \in 1 .. Len(ns) : ns[p] = n
    THEN 1 + CHOOSE p \in 1 .. Len(ns) : ns[p] = n /\ \A q \in 1 .. p - 1 : ns[q] # n
    ELSE NoAddress

\* f.lookup: the store is a NodeListWithFastLookup (a NodeList when FALSE)
find_node_index(f, n) ==
    IF ~f.lookup THEN NodeList_find_node_index(f.nodes, n)
    ELSE IF n \in DOMAIN f.node_to_index THEN f.node_to_index[n] ELSE NoAddress

\* add_node that leaves node_to_index as it is
add_node_index_not_updated(f, n) ==
    [f |-> [f EXCEPT !.nodes = Append(f.nodes, n)], address |-> 2 + Len(f.nodes)]

\* NodeList::add_node then, in a NodeListWithFastLookup, the insert into node_to_index:
\* [f, address]
add_node(f, n) ==
    LET pushed == Append(f.nodes, n)
        res == 1 + Len(pushed)
    IN [f |-> [f EXCEPT !.nodes = pushed,
                        !.node_to_index = IF f.lookup THEN Insert(@, n, res) ELSE @],
        address |-> res]

store_len(f) == Len(f.nodes)

\* add_node_if_not_present that takes the gcd also when a child is FALSE
add_node_if_not_present_gcd_always(f, n) ==
    LET t == IF irrelevant THEN <<n, M_ONE>>
             ELSE LET g == M_gcd(n.lo.multiplicity, n.hi.multiplicity)
                  IN <<Node(n.variable, NodeIndex(n.lo.address, g[1]),
                                        NodeIndex(n.hi.address, g[2])), g[3]>>
        found == find_node_index(f, t[1])
    IN IF found # NoAddress THEN R(f, NodeIndex(found, t[2]))
       ELSE Then(add_node(f, t[1]), LAMBDA a : R(a.f, NodeIndex(a.address, t[2])))

add_node_if_not_present(f, n) ==
    LET t == IF irrelevant THEN <<n, M_ONE>>
             ELSE LET g == IF is_false(n.hi) THEN <<M_ONE, M_ONE, n.lo.multiplicity>>
                           ELSE IF is_false(n.lo) THEN <<M_ONE, M_ONE, n.hi.multiplicity>>
                           ELSE M_gcd(n.lo.multiplicity, n.hi.multiplicity)
                  IN <<Node(n.variable, NodeIndex(n.lo.address, g[1]),
                                        NodeIndex(n.hi.address, g[2])), g[3]>>
        found == find_node_index(f, t[1])
    IN IF found # NoAddress THEN R(f, NodeIndex(found, t[2]))
       ELSE Then(add_node(f, t[1]), LAMBDA a : R(a.f, NodeIndex(a.address, t[2])))

node_incorporating_multiplicity(f, index) ==
    LET n == node(f, index.address)
    IN Node(n.variable, multiply(n.lo, index.multiplicity), multiply(n.hi, index.multiplicity))

(***************************************************************************)
(* Constructors.                                                           *)
(***************************************************************************)
\* The result of a call that panics.
PANIC == NodeIndex(NoAddress, M_ONE)

single_variable(f, variable) ==
    add_node_if_not_present(f, Node(variable, NodeIndex_FALSE, NodeIndex_TRUE))

\* the loop of single_variable_zdd, at variable i, going down to 0
RECURSIVE single_variable_zdd_loop(_, _, _, _)
\* single_variable_zdd_loop that makes no node for the other variables: the set {variable}
single_variable_zdd_loop_only(f, index, variable, i) ==
    IF i < 0 THEN R(f, index)
    ELSE IF i # variable THEN single_variable_zdd_loop(f, index, variable, i - 1)
    ELSE Then(add_node_if_not_present(f, Node(i, NodeIndex_FALSE, index)),
              LAMBDA r : single_variable_zdd_loop(r.f, r.res, variable, i - 1))

single_variable_zdd_loop(f, index, variable, i) ==
    IF i < 0 THEN R(f, index)
    ELSE Then(add_node_if_not_present(f,
                  Node(i, IF i = variable THEN NodeIndex_FALSE ELSE index, index)),
              LAMBDA r : single_variable_zdd_loop(r.f, r.res, variable, i - 1))

single_variable_zdd(f, variable, total_num_variables) ==
    single_variable_zdd_loop(f, NodeIndex_TRUE, variable, total_num_variables - 1)

\* the loop of exactly_one_of_bdd, at the k-th listed variable, going down to the first
RECURSIVE exactly_one_of_bdd_loop(_, _, _, _, _)
\* exactly_one_of_bdd_loop whose right diagonal goes on to itself when a second listed
\* variable is true
exactly_one_of_bdd_loop_second_allowed(f, variables, k, left, right) ==
    IF k = 0 THEN R(f, PANIC)
    ELSE LET variable == variables[k]
         IN Then(add_node_if_not_present(f, Node(variable, left, right)), LAMBDA l :
            IF variable = variables[1] THEN l
            ELSE Then(add_node_if_not_present(l.f, Node(variable, right, right)),
                      LAMBDA r : exactly_one_of_bdd_loop(r.f, variables, k - 1, l.res, r.res)))

\* exactly_one_of_bdd_loop that panics at a listed variable not below the one after it
exactly_one_of_bdd_loop_order_checked(f, variables, k, left, right) ==
    IF k = 0 THEN R(f, PANIC)
    ELSE IF k < Len(variables) /\ variables[k] >= variables[k + 1] THEN R(f, PANIC)
    ELSE LET variable == variables[k]
         IN Then(add_node_if_not_present(f, Node(variable, left, right)), LAMBDA l :
            IF variable = variables[1] THEN l
            ELSE Then(add_node_if_not_present(l.f, Node(variable, right, NodeIndex_FALSE)),
                      LAMBDA r : exactly_one_of_bdd_loop(r.f, variables, k - 1, l.res, r.res)))

exactly_one_of_bdd_loop(f, variables, k, left, right) ==
    IF k = 0 THEN R(f, PANIC)
    ELSE LET variable == variables[k]
         IN Then(add_node_if_not_present(f, Node(variable, left, right)), LAMBDA l :
            IF variable = variables[1] THEN l
            ELSE Then(add_node_if_not_present(l.f, Node(variable, right, NodeIndex_FALSE)),
                      LAMBDA r : exactly_one_of_bdd_loop(r.f, variables, k - 1, l.res, r.res)))

exactly_one_of_bdd(f, variables) ==
    IF Len(variables) = 0 THEN R(f, NodeIndex_FALSE)
    ELSE exactly_one_of_bdd_loop(f, variables, Len(variables), NodeIndex_FALSE, NodeIndex_TRUE)

\* variables[from..]: the slice &variables[1..] taken (from - 1) times
RECURSIVE exactly_n_of_bdd_rec(_, _, _, _)
exactly_n_of_bdd_rec(f, n, variables, from) ==
    LET len == Len(variables) - from + 1
    IN IF n > len THEN R(f, NodeIndex_FALSE)
       ELSE IF len = 0 THEN R(f, NodeIndex_TRUE)
       ELSE IF <<n, len>> \in DOMAIN f.n_cache THEN R(f, f.n_cache[<<n, len>>])
       ELSE Then(IF n > 0 THEN exactly_n_of_bdd_rec(f, n - 1, variables, from + 1)
                 ELSE R(f, NodeIndex_FALSE), LAMBDA hi :
            Then(exactly_n_of_bdd_rec(hi.f, n, variables, from + 1), LAMBDA lo :
            Then(IF lo.res = hi.res THEN lo
                 ELSE add_node_if_not_present(lo.f, Node(variables[from], lo.res, hi.res)),
                 LAMBDA res :
            R([res.f EXCEPT !.n_cache = Insert(@, <<n, len>>, res.res)], res.res))))

\* BDDFactory::exactly_n_of: a fresh cache for each call
exactly_n_of(f, n, variables) ==
    Then(exactly_n_of_bdd_rec([f EXCEPT !.n_cache = EmptyMap], n, variables, 1),
         LAMBDA r : R([r.f EXCEPT !.n_cache = EmptyMap], r.res))

\* for v in (start..end).rev(), at v
RECURSIVE zdd_variables_in_range_dont_matter_loop(_, _, _, _)
zdd_variables_in_range_dont_matter_loop(f, res, start, v) ==
    IF v < start THEN R(f, res)
    ELSE Then(add_node_if_not_present(f, Node(v, res, res)),
              LAMBDA r : zdd_variables_in_range_dont_matter_loop(r.f, r.res, start, v - 1))

zdd_variables_in_range_dont_matter(f, base, start, end) ==
    zdd_variables_in_range_dont_matter_loop(f, base, start, end - 1)

RECURSIVE exactly_one_of_zdd_loop(_, _, _, _, _, _)
exactly_one_of_zdd_loop(f, variables, k, left, right, dealt_with) ==
    IF k = 0 THEN R(f, PANIC)
    ELSE LET variable == variables[k]
         IN Then(zdd_variables_in_range_dont_matter(f, left, variable + 1, dealt_with),
                 LAMBDA l1 :
            Then(zdd_variables_in_range_dont_matter(l1.f, right, variable + 1, dealt_with),
                 LAMBDA r1 :
            Then(add_node_if_not_present(r1.f, Node(variable, l1.res, r1.res)), LAMBDA l2 :
            IF variable = variables[1]
            THEN zdd_variables_in_range_dont_matter(l2.f, l2.res, 0, variable)
            ELSE Then(add_node_if_not_present(l2.f, Node(variable, r1.res, NodeIndex_FALSE)),
                      LAMBDA r2 :
                 exactly_one_of_zdd_loop(r2.f, variables, k - 1, l2.res, r2.res, variable)))))

exactly_one_of_zdd(f, variables, total_num_variables) ==
    IF Len(variables) = 0 THEN R(f, NodeIndex_FALSE)
    ELSE exactly_one_of_zdd_loop(f, variables, Len(variables), NodeIndex_FALSE,
                                 NodeIndex_TRUE, total_num_variables)

\* true_regardless_of_variables_below_zdd without the chain of variables from upto on
true_regardless_of_variables_below_zdd_sink(f, upto, total_num_variables) ==
    R(f, NodeIndex_TRUE)

true_regardless_of_variables_below_zdd(f, upto, total_num_variables) ==
    zdd_variables_in_range_dont_matter(f, NodeIndex_TRUE, upto, total_num_variables)

(***************************************************************************)
(* Evaluation.                                                             *)
(***************************************************************************)
\* variables: a sequence of booleans, variables[v + 1] the value of variable v
RECURSIVE evaluate_bdd(_, _, _)
evaluate_bdd(f, index, variables) ==
    IF is_sink(index) THEN is_true(index)
    ELSE LET n == node(f, index.address)
         IN evaluate_bdd(f, IF variables[n.variable + 1] THEN n.hi ELSE n.lo, variables)

RECURSIVE evaluate_zdd_from(_, _, _, _)
evaluate_zdd_from(f, index, variables, up_to_variable) ==
    IF is_sink(index)
    THEN (\A v \in up_to_variable .. Len(variables) - 1 : ~variables[v + 1]) /\ is_true(index)
    ELSE LET n == node(f, index.address)
         IN IF \E v \in up_to_variable .. n.variable - 1 : variables[v + 1] THEN FALSE
            ELSE evaluate_zdd_from(f, IF variables[n.variable + 1] THEN n.hi ELSE n.lo,
                                   variables, n.variable + 1)

evaluate_zdd(f, index, variables) == evaluate_zdd_from(f, index, variables, 0)

(***************************************************************************)
(* Apply engine: not, and (mul), or (sum), for BDDs and for ZDDs.          *)
(***************************************************************************)
RECURSIVE not_bdd(_, _)
not_bdd(f, index) ==
    IF is_true(index) THEN R(f, NodeIndex_FALSE)
    ELSE IF is_false(index) THEN R(f, NodeIndex_TRUE)
    ELSE IF index.address \in DOMAIN f.not_cache
         THEN R(f, NodeIndex(f.not_cache[index.address], M_ONE))
    ELSE LET n == node(f, index.address)
         IN Then(not_bdd(f, n.lo), LAMBDA lo :
            Then(not_bdd(lo.f, n.hi), LAMBDA hi :
            Then(add_node_if_not_present(hi.f, Node(n.variable, lo.res, hi.res)), LAMBDA res :
            R([res.f EXCEPT !.not_cache = Insert(@, index.address, res.res.address)],
              res.res))))

\* the closing loop of not_zdd: for i in (upto..upper_bound).rev(), at i
RECURSIVE not_zdd_chain(_, _, _, _, _)
not_zdd_chain(f, index, upto, i, total_number_variables) ==
    IF i < upto THEN R(f, index)
    ELSE Then(true_regardless_of_variables_below_zdd(f, i + 1, total_number_variables),
              LAMBDA hi :
         Then(add_node_if_not_present(hi.f, Node(i, index, hi.res)), LAMBDA r :
         not_zdd_chain(r.f, r.res, upto, i - 1, total_number_variables)))

RECURSIVE not_zdd(_, _, _, _)
not_zdd(f, index, upto, total_number_variables) ==
    LET key == <<index.address, upto>>
    IN IF key \in DOMAIN f.not_cache THEN R(f, NodeIndex(f.not_cache[key], M_ONE))
       ELSE LET n == node(f, index.address)
                upper_bound == IF is_sink(index) THEN total_number_variables ELSE n.variable
            IN Then(IF is_false(index) THEN R(f, NodeIndex_TRUE)
                    ELSE IF is_true(index) THEN R(f, NodeIndex_FALSE)
                    ELSE Then(not_zdd(f, n.lo, n.variable + 1, total_number_variables),
                              LAMBDA lo :
                         Then(not_zdd(lo.f, n.hi, n.variable + 1, total_number_variables),
                              LAMBDA hi :
                         IF is_false(hi.res) THEN R(hi.f, lo.res)
                         ELSE add_node_if_not_present(hi.f,
                                                      Node(n.variable, lo.res, hi.res)))),
                    LAMBDA first :
               Then(not_zdd_chain(first.f, first.res, upto, upper_bound - 1,
                                  total_number_variables), LAMBDA res :
               R([res.f EXCEPT !.not_cache = Insert(@, key, res.res.address)], res.res)))

\* cache: the name of the memo table the caller passed, "and_cache" or "or_cache"
create_node_bdd(f, lo, hi, variable, key, cache) ==
    Then(IF lo = hi THEN R(f, lo) ELSE add_node_if_not_present(f, Node(variable, lo, hi)),
         LAMBDA res : R([res.f EXCEPT ![cache] = Insert(@, key, res.res)], res.res))

\* min_variable that takes the variable of the deeper node
min_variable_larger(node1, node2) ==
    IF node1.variable <= node2.variable THEN node2.variable ELSE node1.variable

min_variable(node1, node2) ==
    IF node1.variable <= node2.variable THEN node1.variable ELSE node2.variable

RECURSIVE mul_bdd(_, _, _)
\* mul_bdd with the cofactors of the deeper operand taken as FALSE on the hi side, as the
\* ZDD rule has it
mul_bdd_zdd_cofactors(f, index1, index2) ==
    IF is_false(index1) \/ is_false(index2) THEN R(f, NodeIndex_FALSE)
    ELSE IF is_true(index1) THEN R(f, multiply(index2, index1.multiplicity))
    ELSE IF is_true(index2) THEN R(f, multiply(index1, index2.multiplicity))
    ELSE IF irrelevant /\ index1.address = index2.address
         THEN R(f, multiply(index1, index2.multiplicity))
    ELSE LET key == IF index1.address < index2.address THEN <<index1, index2>>
                    ELSE <<index2, index1>>
         IN IF key \in DOMAIN f.and_cache THEN R(f, f.and_cache[key])
            ELSE LET node1 == node_incorporating_multiplicity(f, index1)
                     node2 == node_incorporating_multiplicity(f, index2)
                     lo1 == IF node1.variable <= node2.variable THEN node1.lo ELSE index1
                     hi1 == IF node1.variable <= node2.variable THEN node1.hi
                            ELSE NodeIndex_FALSE
                     lo2 == IF node2.variable <= node1.variable THEN node2.lo ELSE index2
                     hi2 == IF node2.variable <= node1.variable THEN node2.hi
                            ELSE NodeIndex_FALSE
                 IN Then(mul_bdd(f, lo1, lo2), LAMBDA lo :
                    Then(mul_bdd(lo.f, hi1, hi2), LAMBDA hi :
                    create_node_bdd(hi.f, lo.res, hi.res, min_variable(node1, node2),
                                    key, "and_cache")))

mul_bdd(f, index1, index2) ==
    IF is_false(index1) \/ is_false(index2) THEN R(f, NodeIndex_FALSE)
    ELSE IF is_true(index1) THEN R(f, multiply(index2, index1.multiplicity))
    ELSE IF is_true(index2) THEN R(f, multiply(index1, index2.multiplicity))
    ELSE IF irrelevant /\ index1.address = index2.address
         THEN R(f, multiply(index1, index2.multiplicity))
    ELSE LET key == IF index1.address < index2.address THEN <<index1, index2>>
                    ELSE <<index2, index1>>
         IN IF key \in DOMAIN f.and_cache THEN R(f, f.and_cache[key])
            ELSE LET node1 == node_incorporating_multiplicity(f, index1)
                     node2 == node_incorporating_multiplicity(f, index2)
                     lo1 == IF node1.variable <= node2.variable THEN node1.lo ELSE index1
                     hi1 == IF node1.variable <= node2.variable THEN node1.hi ELSE index1
                     lo2 == IF node2.variable <= node1.variable THEN node2.lo ELSE index2
                     hi2 == IF node2.variable <= node1.variable THEN node2.hi ELSE index2
                 IN Then(mul_bdd(f, lo1, lo2), LAMBDA lo :
                    Then(mul_bdd(lo.f, hi1, hi2), LAMBDA hi :
                    create_node_bdd(hi.f, lo.res, hi.res, min_variable(node1, node2),
                                    key, "and_cache")))

\* Multiplicity::SYMMETRIC_OR, which neither NoMultiplicity nor u32 overrides
SYMMETRIC_OR == TRUE

\* the operands of sum_bdd / sum_zdd in the order the memo key uses
sum_order(index1, index2) ==
    IF (SYMMETRIC_OR /\ index1.address < index2.address) \/ is_true(index1)
    THEN <<index2, index1>> ELSE <<index1, index2>>

RECURSIVE sum_bdd(_, _, _)
sum_bdd(f, index1, index2) ==
    IF index1.address = index2.address
    THEN R(f, NodeIndex(index1.address,
                        M_combine_or(index1.multiplicity, index2.multiplicity)))
    ELSE IF is_false(index1) THEN R(f, index2)
    ELSE IF is_false(index2) THEN R(f, index1)
    ELSE IF irrelevant /\ (is_true(index1) \/ is_true(index2)) THEN R(f, NodeIndex_TRUE)
    ELSE LET key == sum_order(index1, index2)
             i1 == key[1]
             i2 == key[2]
         IN IF key \in DOMAIN f.or_cache THEN R(f, f.or_cache[key])
            ELSE LET node1 == node_incorporating_multiplicity(f, i1)
                     node2 == IF is_true(i2)
                              THEN Node(node1.variable, NodeIndex(A_TRUE, i2.multiplicity),
                                        NodeIndex(A_TRUE, i2.multiplicity))
                              ELSE node_incorporating_multiplicity(f, i2)
                     lo1 == IF node1.variable <= node2.variable THEN node1.lo ELSE i1
                     hi1 == IF node1.variable <= node2.variable THEN node1.hi ELSE i1
                     lo2 == IF node2.variable <= node1.variable THEN node2.lo ELSE i2
                     hi2 == IF node2.variable <= node1.variable THEN node2.hi ELSE i2
                 IN Then(sum_bdd(f, lo1, lo2), LAMBDA lo :
                    Then(sum_bdd(lo.f, hi1, hi2), LAMBDA hi :
                    create_node_bdd(hi.f, lo.res, hi.res, min_variable(node1, node2),
                                    key, "or_cache")))

RECURSIVE and_zdd_true(_, _)
\* and_zdd_true that leaves the edge as it is
and_zdd_true_unchanged(f, index) == index

and_zdd_true(f, index) ==
    IF is_sink(index) THEN index
    ELSE and_zdd_true(f, multiply(node(f, index.address).lo, index.multiplicity))

create_node_zdd(f, lo, hi, variable, key, cache) ==
    Then(IF is_false(hi) THEN R(f, lo) ELSE add_node_if_not_present(f, Node(variable, lo, hi)),
         LAMBDA res : R([res.f EXCEPT ![cache] = Insert(@, key, res.res)], res.res))

RECURSIVE mul_zdd(_, _, _)
mul_zdd(f, index1, index2) ==
    IF is_false(index1) \/ is_false(index2) THEN R(f, NodeIndex_FALSE)
    ELSE IF is_true(index1)
         THEN R(f, multiply(and_zdd_true(f, index2), index1.multiplicity))
    ELSE IF is_true(index2)
         THEN R(f, multiply(and_zdd_true(f, index1), index2.multiplicity))
    ELSE IF irrelevant /\ index1 = index2 THEN R(f, multiply(index1, index2.multiplicity))
    ELSE LET key == IF index1.address < index2.address THEN <<index1, index2>>
                    ELSE <<index2, index1>>
         IN IF key \in DOMAIN f.and_cache THEN R(f, f.and_cache[key])
            ELSE LET node1 == node_incorporating_multiplicity(f, index1)
                     node2 == node_incorporating_multiplicity(f, index2)
                     lo1 == IF node1.variable <= node2.variable THEN node1.lo ELSE index1
                     hi1 == IF node1.variable <= node2.variable THEN node1.hi
                            ELSE NodeIndex_FALSE
                     lo2 == IF node2.variable <= node1.variable THEN node2.lo ELSE index2
                     hi2 == IF node2.variable <= node1.variable THEN node2.hi
                            ELSE NodeIndex_FALSE
                 IN Then(mul_zdd(f, lo1, lo2), LAMBDA lo :
                    Then(mul_zdd(lo.f, hi1, hi2), LAMBDA hi :
                    create_node_zdd(hi.f, lo.res, hi.res, min_variable(node1, node2),
                                    key, "and_cache")))

RECURSIVE sum_zdd(_, _, _)
\* sum_zdd with TRUE broadcast to both sides of the other operand's root, as sum_bdd does
sum_zdd_bdd_broadcast(f, index1, index2) ==
    IF index1.address = index2.address
    THEN R(f, NodeIndex(index1.address,
                        M_combine_or(index1.multiplicity, index2.multiplicity)))
    ELSE IF is_false(index1) THEN R(f, index2)
    ELSE IF is_false(index2) THEN R(f, index1)
    ELSE LET key == sum_order(index1, index2)
             i1 == key[1]
             i2 == key[2]
         IN IF key \in DOMAIN f.or_cache THEN R(f, f.or_cache[key])
            ELSE LET node1 == node_incorporating_multiplicity(f, i1)
                     node2 == IF is_true(i2)
                              THEN Node(node1.variable, NodeIndex(A_TRUE, i2.multiplicity),
                                        NodeIndex(A_TRUE, i2.multiplicity))
                              ELSE node_incorporating_multiplicity(f, i2)
                     lo1 == IF node1.variable <= node2.variable THEN node1.lo ELSE i1
                     hi1 == IF node1.variable <= node2.variable THEN node1.hi
                            ELSE NodeIndex_FALSE
                     lo2 == IF node2.variable <= node1.variable THEN node2.lo ELSE i2
                     hi2 == IF node2.variable <= node1.variable THEN node2.hi
                            ELSE NodeIndex_FALSE
                 IN Then(sum_zdd(f, lo1, lo2), LAMBDA lo :
                    Then(sum_zdd(lo.f, hi1, hi2), LAMBDA hi :
                    create_node_zdd(hi.f, lo.res, hi.res, min_variable(node1, node2),
                                    key, "or_cache")))

sum_zdd(f, index1, index2) ==
    IF index1.address = index2.address
    THEN R(f, NodeIndex(index1.address,
                        M_combine_or(index1.multiplicity, index2.multiplicity)))
    ELSE IF is_false(index1) THEN R(f, index2)
    ELSE IF is_false(index2) THEN R(f, index1)
    ELSE LET key == sum_order(index1, index2)
             i1 == key[1]
             i2 == key[2]
         IN IF key \in DOMAIN f.or_cache THEN R(f, f.or_cache[key])
            ELSE LET node1 == node_incorporating_multiplicity(f, i1)
                     node2 == IF is_true(i2)
                              THEN Node(node1.variable, NodeIndex(A_TRUE, i2.multiplicity),
                                        NodeIndex_FALSE)
                              ELSE node_incorporating_multiplicity(f, i2)
                     lo1 == IF node1.variable <= node2.variable THEN node1.lo ELSE i1
                     hi1 == IF node1.variable <= node2.variable THEN node1.hi
                            ELSE NodeIndex_FALSE
                     lo2 == IF node2.variable <= node1.variable THEN node2.lo ELSE i2
                     hi2 == IF node2.variable <= node1.variable THEN node2.hi
                            ELSE NodeIndex_FALSE
                 IN Then(sum_zdd(f, lo1, lo2), LAMBDA lo :
                    Then(sum_zdd(lo.f, hi1, hi2), LAMBDA hi :
                    create_node_zdd(hi.f, lo.res, hi.res, min_variable(node1, node2),
                                    key, "or_cache")))

(***************************************************************************)
(* Generating function u64, and counting.                                  *)
(***************************************************************************)
G_zero == 0
G_one == 1
G_add(a, b) == a + b
variable_set(g, variable) == g
variable_not_set(g, variable) == g
deal_with_variable_being_indeterminate(g, variable) ==
    G_add(variable_set(g, variable), variable_not_set(g, variable))

\* for v in (inclusive_start..exclusive_end).rev(), at v
RECURSIVE indeterminate_loop(_, _, _)
indeterminate_loop(g, inclusive_start, v) ==
    IF v < inclusive_start THEN g
    ELSE indeterminate_loop(deal_with_variable_being_indeterminate(g, v), inclusive_start, v - 1)

deal_with_variable_range_being_indeterminate(g, inclusive_start, exclusive_end) ==
    indeterminate_loop(g, inclusive_start, exclusive_end - 1)

G_multiply(g, multiple) == IF irrelevant THEN g ELSE g * multiple

\* the variable of the node an edge points to, num_variables for a sink
level_of(f, index, num_variables) ==
    IF is_sink(index) THEN num_variables ELSE node(f, index.address).variable

\* side_number_solutions without the variables skipped between a node and its child
side_number_solutions_no_bridge(f, res, n, child, num_variables, bdd) ==
    LET g0 == res[child.address + 1]
    IN IF M_is_unity(child.multiplicity) THEN g0 ELSE G_multiply(g0, child.multiplicity)

\* one side of a node in all_number_solutions
side_number_solutions(f, res, n, child, num_variables, bdd) ==
    LET g0 == res[child.address + 1]
        g1 == IF M_is_unity(child.multiplicity) THEN g0 ELSE G_multiply(g0, child.multiplicity)
        level == level_of(f, child, num_variables)
    IN IF bdd THEN deal_with_variable_range_being_indeterminate(g1, n.variable + 1, level)
       ELSE g1

\* for i in 2..length, at i; res[a + 1] is the entry of address a
RECURSIVE all_number_solutions_loop(_, _, _, _, _, _)
all_number_solutions_loop(f, res, i, length, num_variables, bdd) ==
    IF i >= length THEN res
    ELSE LET n == node(f, i)
             lo == variable_not_set(
                     side_number_solutions(f, res, n, n.lo, num_variables, bdd), n.variable)
             hi == variable_set(
                     side_number_solutions(f, res, n, n.hi, num_variables, bdd), n.variable)
         IN all_number_solutions_loop(f, Append(res, G_add(lo, hi)), i + 1, length,
                                      num_variables, bdd)

all_number_solutions(f, length, num_variables, bdd) ==
    all_number_solutions_loop(f, <<G_zero, G_one>>, 2, length, num_variables, bdd)

number_solutions(f, index, num_variables, bdd) ==
    LET work == all_number_solutions(f, index.address + 1, num_variables, bdd)
        found == work[index.address + 1]
        before_multiplicity ==
            IF bdd THEN deal_with_variable_range_being_indeterminate(
                            found, 0, level_of(f, index, num_variables))
            ELSE found
    IN G_multiply(before_multiplicity, index.multiplicity)

(***************************************************************************)
(* SolutionFinder.                                                         *)
(***************************************************************************)
find_all_solutions(f, index, num_variables, bdd) ==
    [num_solutions_by_node |-> all_number_solutions(f, index.address + 1, num_variables, bdd),
     number_of_variables_true_in_minimum_solution |-> <<>>,
     num_variables |-> num_variables,
     start_node_index |-> index,
     is_bdd |-> bdd,
     WANT_MIN_VARS |-> FALSE]

number_solutions_starting_from_variable(f, sf, index, starting_variable) ==
    LET found == sf.num_solutions_by_node[index.address + 1]
        before_multiplicity ==
            IF sf.is_bdd /\ ~sf.WANT_MIN_VARS
            THEN deal_with_variable_range_being_indeterminate(
                     found, starting_variable, level_of(f, index, sf.num_variables))
            ELSE found
    IN G_multiply(before_multiplicity, index.multiplicity)

SolutionFinder_number_solutions(f, sf) ==
    number_solutions_starting_from_variable(f, sf, sf.start_node_index, 0)

None == [tag |-> "None"]
Some(x) == [tag |-> "Some", value |-> x]
\* a failed assert!
AssertionFailed == [tag |-> "panic"]

\* first inner loop: for i in (up_to_variable..end_variable_index).rev(), at i
RECURSIVE num_here_doubling_push(_, _, _, _)
num_here_doubling_push(stack, num_here, up_to_variable, i) ==
    IF i < up_to_variable THEN stack
    ELSE num_here_doubling_push(Append(stack, num_here),
                                deal_with_variable_being_indeterminate(num_here, i),
                                up_to_variable, i - 1)

\* second inner loop: for i in up_to_variable..end_variable_index, at i: [bypassed, res]
RECURSIVE num_here_doubling_pop(_, _, _, _, _, _)
\* num_here_doubling_pop setting variable i only when strictly more than the bypassed
\* solutions precede the wanted one
num_here_doubling_pop_strict(stack, bypassed, res, i, end_variable_index, solution_index) ==
    IF i >= end_variable_index THEN [bypassed |-> bypassed, res |-> res]
    ELSE LET num_in_question == stack[Len(stack)]
             bypassed_if_i_true == G_add(bypassed, num_in_question)
             rest == SubSeq(stack, 1, Len(stack) - 1)
         IN IF bypassed_if_i_true < solution_index
            THEN num_here_doubling_pop(rest, bypassed_if_i_true, Append(res, i), i + 1,
                                       end_variable_index, solution_index)
            ELSE num_here_doubling_pop(rest, bypassed, res, i + 1,
                                       end_variable_index, solution_index)

num_here_doubling_pop(stack, bypassed, res, i, end_variable_index, solution_index) ==
    IF i >= end_variable_index THEN [bypassed |-> bypassed, res |-> res]
    ELSE LET num_in_question == stack[Len(stack)]
             bypassed_if_i_true == G_add(bypassed, num_in_question)
             rest == SubSeq(stack, 1, Len(stack) - 1)
         IN IF bypassed_if_i_true <= solution_index
            THEN num_here_doubling_pop(rest, bypassed_if_i_true, Append(res, i), i + 1,
                                       end_variable_index, solution_index)
            ELSE num_here_doubling_pop(rest, bypassed, res, i + 1,
                                       end_variable_index, solution_index)

\* one iteration of the loop of get_ith_solution, and the iterations after it
RECURSIVE get_ith_solution_loop(_, _, _, _, _, _, _, _)
get_ith_solution_loop(f, sf, solution_index, current_index, res, bypassed, scale0, up_to_variable) ==
    LET scale == M_multiply(scale0, current_index.multiplicity)
        here == G_multiply(sf.num_solutions_by_node[current_index.address + 1], scale)
        skipping == sf.is_bdd /\ ~sf.WANT_MIN_VARS
        end_variable_index == level_of(f, current_index, sf.num_variables)
        skipped == IF skipping
                   THEN num_here_doubling_pop(
                            num_here_doubling_push(<<>>, here, up_to_variable,
                                                   end_variable_index - 1),
                            bypassed, res, up_to_variable, end_variable_index, solution_index)
                   ELSE [bypassed |-> bypassed, res |-> res]
        up_to == IF skipping THEN end_variable_index + 1 ELSE up_to_variable
        n == node(f, current_index.address)
        could_go_left ==
            (~sf.WANT_MIN_VARS) \/
            LET lo == sf.number_of_variables_true_in_minimum_solution[n.lo.address + 1]
                hi == sf.number_of_variables_true_in_minimum_solution[n.hi.address + 1]
            IN hi = usize_MAX \/ lo <= hi + 1
        num_on_left == G_multiply(
                           number_solutions_starting_from_variable(f, sf, n.lo, up_to), scale)
        bypassed_if_choose_right == G_add(skipped.bypassed, num_on_left)
        will_go_left == could_go_left /\ ~(bypassed_if_choose_right <= solution_index)
        bypassed_after == IF could_go_left /\ bypassed_if_choose_right <= solution_index
                          THEN bypassed_if_choose_right ELSE skipped.bypassed
    IN IF ~(skipped.bypassed <= solution_index) THEN AssertionFailed
       ELSE IF ~(G_add(skipped.bypassed, here) > solution_index) THEN AssertionFailed
       ELSE IF is_sink(current_index)
            THEN (IF is_true(current_index) THEN Some(skipped.res) ELSE AssertionFailed)
       ELSE IF will_go_left
            THEN get_ith_solution_loop(f, sf, solution_index, n.lo, skipped.res,
                                       bypassed_after, scale, up_to)
            ELSE get_ith_solution_loop(f, sf, solution_index, n.hi,
                                       Append(skipped.res, n.variable),
                                       bypassed_after, scale, up_to)

get_ith_solution(f, sf, solution_index) ==
    IF solution_index >= SolutionFinder_number_solutions(f, sf) THEN None
    ELSE get_ith_solution_loop(f, sf, solution_index, sf.start_node_index, <<>>,
                               G_zero, M_ONE, 0)

(***************************************************************************)
(* Solutions with the fewest true variables.                               *)
(***************************************************************************)
usize_min(a, b) == IF a <= b THEN a ELSE b

\* for i in 2..length, at i; res[a + 1] is the entry of address a
RECURSIVE all_shortest_solutions_loop(_, _, _, _)
all_shortest_solutions_loop(f, res, i, length) ==
    IF i >= length THEN res
    ELSE LET n == node(f, i)
             lo == res[n.lo.address + 1]
             hi == res[n.hi.address + 1]
             current == IF hi = usize_MAX THEN lo ELSE usize_min(lo, hi + 1)
         IN all_shortest_solutions_loop(f, Append(res, current), i + 1, length)

all_shortest_solutions(f, length) ==
    all_shortest_solutions_loop(f, IF length > 1 THEN <<usize_MAX, 0>> ELSE <<usize_MAX>>,
                                2, length)

\* the while loop of find_satisfying_solution_with_minimum_number_of_variables
RECURSIVE shortest_solution_walk(_, _, _, _)
\* shortest_solution_walk taking the lo route whenever lo has a solution at all
shortest_solution_walk_lo_first(f, work, current_index, res) ==
    IF current_index \in {A_FALSE, A_TRUE} THEN res
    ELSE LET n == node(f, current_index)
             lo == work[n.lo.address + 1]
             hi == work[n.hi.address + 1]
         IN IF hi = usize_MAX \/ lo < usize_MAX
            THEN shortest_solution_walk(f, work, n.lo.address, res)
            ELSE shortest_solution_walk(f, work, n.hi.address, Append(res, n.variable))

shortest_solution_walk(f, work, current_index, res) ==
    IF current_index \in {A_FALSE, A_TRUE} THEN res
    ELSE LET n == node(f, current_index)
             lo == work[n.lo.address + 1]
             hi == work[n.hi.address + 1]
         IN IF hi = usize_MAX \/ lo <= hi + 1
            THEN shortest_solution_walk(f, work, n.lo.address, res)
            ELSE shortest_solution_walk(f, work, n.hi.address, Append(res, n.variable))

find_satisfying_solution_with_minimum_number_of_variables(f, index) ==
    LET work == all_shortest_solutions(f, index.address + 1)
    IN IF work[Len(work)] = usize_MAX THEN None
       ELSE Some(shortest_solution_walk(f, work, index.address, <<>>))

\* one side of a node in find_all_solutions_with_minimal_true_arguments
side_minimal_solutions(nums, child, use) ==
    IF use
    THEN LET g == nums[child.address + 1]
         IN IF irrelevant \/ M_is_unity(child.multiplicity) THEN g
            ELSE G_multiply(g, child.multiplicity)
    ELSE G_zero

\* for i in 2..length, at i: [nums, mins], the entry of address a at a + 1
RECURSIVE minimal_true_arguments_loop(_, _, _, _, _)
\* minimal_true_arguments_loop that keeps the hi side whenever hi has a solution
minimal_true_arguments_loop_hi_kept(f, nums, mins, i, length) ==
    IF i >= length THEN [nums |-> nums, mins |-> mins]
    ELSE LET n == node(f, i)
             number_of_variables_lo == mins[n.lo.address + 1]
             number_of_variables_hi == mins[n.hi.address + 1]
             number_of_variables_here ==
                 IF number_of_variables_hi = usize_MAX THEN number_of_variables_lo
                 ELSE usize_min(number_of_variables_lo, number_of_variables_hi + 1)
             use_lo == number_of_variables_lo = number_of_variables_here
             use_hi == number_of_variables_hi # usize_MAX
             lo == variable_not_set(side_minimal_solutions(nums, n.lo, use_lo), n.variable)
             hi == variable_set(side_minimal_solutions(nums, n.hi, use_hi), n.variable)
         IN minimal_true_arguments_loop(f, Append(nums, G_add(lo, hi)),
                                        Append(mins, number_of_variables_here), i + 1, length)

minimal_true_arguments_loop(f, nums, mins, i, length) ==
    IF i >= length THEN [nums |-> nums, mins |-> mins]
    ELSE LET n == node(f, i)
             number_of_variables_lo == mins[n.lo.address + 1]
             number_of_variables_hi == mins[n.hi.address + 1]
             number_of_variables_here ==
                 IF number_of_variables_hi = usize_MAX THEN number_of_variables_lo
                 ELSE usize_min(number_of_variables_lo, number_of_variables_hi + 1)
             use_lo == number_of_variables_lo = number_of_variables_here
             use_hi == /\ number_of_variables_hi # usize_MAX
                       /\ number_of_variables_hi + 1 = number_of_variables_here
             lo == variable_not_set(side_minimal_solutions(nums, n.lo, use_lo), n.variable)
             hi == variable_set(side_minimal_solutions(nums, n.hi, use_hi), n.variable)
         IN minimal_true_arguments_loop(f, Append(nums, G_add(lo, hi)),
                                        Append(mins, number_of_variables_here), i + 1, length)

find_all_solutions_with_minimal_true_arguments(f, index, num_variables, bdd) ==
    LET work == minimal_true_arguments_loop(f, <<G_zero, G_one>>, <<usize_MAX, 0>>, 2,
                                            index.address + 1)
    IN [num_solutions_by_node |-> work.nums,
        number_of_variables_true_in_minimum_solution |-> work.mins,
        num_variables |-> num_variables,
        start_node_index |-> index,
        is_bdd |-> bdd,
        WANT_MIN_VARS |-> TRUE]

(***************************************************************************)
(* Garbage collection and NodeRenaming.                                    *)
(***************************************************************************)
\* map[a + 1] is the entry of address a
RECURSIVE do_keep(_, _, _)
\* do_keep that does not go on to the hi child
do_keep_lo_only(ns, map, n) ==
    LET address == n.address
    IN IF map[address + 1] # A_TRUE
       THEN do_keep(ns, [map EXCEPT ![address + 1] = A_TRUE], ns[address - 1].lo)
       ELSE map

do_keep(ns, map, n) ==
    LET address == n.address
    IN IF map[address + 1] # A_TRUE
       THEN LET marked == [map EXCEPT ![address + 1] = A_TRUE]
                nd == ns[address - 1]
            IN do_keep(ns, do_keep(ns, marked, nd.lo), nd.hi)
       ELSE map

\* for k in keep
RECURSIVE gc_mark(_, _, _)
gc_mark(ns, map, keep) ==
    IF keep = {} THEN map
    ELSE LET k == CHOOSE e \in keep : TRUE
         IN gc_mark(ns, do_keep(ns, map, k), keep \ {k})

\* for i in 2..map.len(), at i: [nodes, map, len]
RECURSIVE gc_compact(_, _, _, _)
\* gc_compact moving each kept node without rewriting its children through the map
gc_compact_children_not_renamed(ns, map, len, i) ==
    IF i >= Len(map) THEN [nodes |-> ns, map |-> map, len |-> len]
    ELSE IF map[i + 1] = A_TRUE
         THEN gc_compact([ns EXCEPT ![len + 1] = ns[i - 1]],
                         [map EXCEPT ![i + 1] = len + 2], len + 1, i + 1)
         ELSE gc_compact(ns, map, len, i + 1)

gc_compact(ns, map, len, i) ==
    IF i >= Len(map) THEN [nodes |-> ns, map |-> map, len |-> len]
    ELSE IF map[i + 1] = A_TRUE
         THEN LET map1 == [map EXCEPT ![i + 1] = len + 2]
                  old_node == ns[i - 1]
                  moved == Node(old_node.variable,
                                NodeIndex(map1[old_node.lo.address + 1],
                                          old_node.lo.multiplicity),
                                NodeIndex(map1[old_node.hi.address + 1],
                                          old_node.hi.multiplicity))
              IN gc_compact([ns EXCEPT ![len + 1] = moved], map1, len + 1, i + 1)
         ELSE gc_compact(ns, map, len, i + 1)

\* NodeList::gc: [nodes, map]
NodeList_gc(ns, keep) ==
    LET map0 == [a \in 1 .. Len(ns) + 2 |-> A_FALSE]
        map1 == [[map0 EXCEPT ![1] = A_TRUE] EXCEPT ![2] = A_TRUE]
        map2 == gc_mark(ns, map1, keep)
        map3 == [[map2 EXCEPT ![1] = A_FALSE] EXCEPT ![2] = A_TRUE]
    IN Then(gc_compact(ns, map3, 0, 2), LAMBDA done :
            [nodes |-> SubSeq(done.nodes, 1, done.len), map |-> done.map])

\* for (i, node) in nodes.iter().enumerate(), at the k-th node
RECURSIVE rebuild_node_to_index(_, _, _)
rebuild_node_to_index(ns, map, k) ==
    IF k > Len(ns) THEN map
    ELSE rebuild_node_to_index(ns, Insert(map, ns[k], k + 1), k + 1)

\* gc that leaves the memo tables as they are
gc_memo_kept(f, keep) ==
    Then(NodeList_gc(f.nodes, keep), LAMBDA g :
        [f |-> [f EXCEPT !.nodes = g.nodes,
                         !.node_to_index = rebuild_node_to_index(g.nodes, EmptyMap, 1)],
         map |-> g.map])

\* NodeList::gc, in a NodeListWithFastLookup NodeListWithFastLookup::gc, under
\* BDDFactory::gc / ZDDFactory::gc / PermutationDecisionDiagramFactory::gc: [f, map]
gc(f, keep) ==
    Then(NodeList_gc(f.nodes, keep), LAMBDA g :
        [f |-> [f EXCEPT !.nodes = g.nodes,
                         !.node_to_index = IF f.lookup
                                           THEN rebuild_node_to_index(g.nodes, EmptyMap, 1)
                                           ELSE @,
                         !.and_cache = EmptyMap, !.or_cache = EmptyMap,
                         !.not_cache = EmptyMap,
                         !.i_cache = EmptyMap, !.compose_cache = EmptyMap],
         map |-> g.map])

rename(map, index) ==
    LET res == map[index.address + 1]
    IN IF res = A_FALSE /\ index.address # A_FALSE THEN None
       ELSE Some(NodeIndex(res, index.multiplicity))

(***************************************************************************)
(* The BDD / ZDD factory: one action for each public mutating call.        *)
(***************************************************************************)
Variables == 0 .. NumVariables - 1

\* the ascending lists of distinct variables
RECURSIVE SortedSeq(_)
SortedSeq(S) ==
    IF S = {} THEN <<>>
    ELSE LET m == CHOOSE x \in S : \A y \in S : x <= y
         IN <<m>> \o SortedSeq(S \ {m})

VariableLists == {SortedSeq(S) : S \in SUBSET Variables}

NoEdge == NodeIndex_FALSE

Call(op, a, b, arg, res) ==
    [op |-> op, a |-> a, b |-> b, arg |-> arg, res |-> res,
     pre_nodes |-> <<>>, keep |-> {}, map |-> <<>>, held |-> {}, memo |-> 0]

Commit(r, call) ==
    /\ nodes' = r.f.nodes
    /\ node_to_index' = r.f.node_to_index
    /\ and_cache' = r.f.and_cache
    /\ or_cache' = r.f.or_cache
    /\ not_cache' = r.f.not_cache
    /\ i_cache' = r.f.i_cache
    /\ compose_cache' = r.f.compose_cache
    /\ pool' = pool \cup {r.res}
    /\ last' = call
    /\ ops' = ops + 1
    /\ UNCHANGED <<kind, irrelevant>>

IsDD == kind \in {"BDD", "ZDD"}

Init ==
    /\ kind \in {"BDD", "ZDD"}
    /\ irrelevant \in BOOLEAN
    /\ nodes = <<>>
    /\ node_to_index = EmptyMap
    /\ and_cache = EmptyMap
    /\ or_cache = EmptyMap
    /\ not_cache = EmptyMap
    /\ i_cache = EmptyMap
    /\ compose_cache = EmptyMap
    /\ pool = {NodeIndex_FALSE, NodeIndex_TRUE}
    /\ last = Call("new", NoEdge, NoEdge, <<>>, NoEdge)
    /\ ops = 0

factory_and(f, index1, index2) ==
    IF kind = "BDD" THEN mul_bdd(f, index1, index2) ELSE mul_zdd(f, index1, index2)

factory_or(f, index1, index2) ==
    IF kind = "BDD" THEN sum_bdd(f, index1, index2) ELSE sum_zdd(f, index1, index2)

factory_not(f, index) ==
    IF kind = "BDD" THEN not_bdd(f, index) ELSE not_zdd(f, index, 0, NumVariables)

factory_single_variable(f, variable) ==
    IF kind = "BDD" THEN single_variable(f, variable)
    ELSE single_variable_zdd(f, variable, NumVariables)

factory_exactly_one_of(f, variables) ==
    IF kind = "BDD" THEN exactly_one_of_bdd(f, variables)
    ELSE exactly_one_of_zdd(f, variables, NumVariables)

SingleVariable(v) ==
    /\ IsDD /\ ops < MaxOps
    /\ Then(factory_single_variable(Factory, v),
            LAMBDA r : Commit(r, Call("single_variable", NoEdge, NoEdge, v, r.res)))

ExactlyOneOf(vs) ==
    /\ IsDD /\ ops < MaxOps
    /\ Then(factory_exactly_one_of(Factory, vs),
            LAMBDA r : Commit(r, Call("exactly_one_of", NoEdge, NoEdge, vs, r.res)))

ExactlyNOf(n, vs) ==
    /\ kind = "BDD" /\ ops < MaxOps
    /\ Then(exactly_n_of(Factory, n, vs),
            LAMBDA r : Commit(r, Call("exactly_n_of", NoEdge, NoEdge, <<n, vs>>, r.res)))

And(a, b) ==
    /\ IsDD /\ ops < MaxOps
    /\ Then(factory_and(Factory, a, b),
            LAMBDA r : Commit(r, Call("and", a, b, <<>>, r.res)))

Or(a, b) ==
    /\ IsDD /\ ops < MaxOps
    /\ Then(factory_or(Factory, a, b),
            LAMBDA r : Commit(r, Call("or", a, b, <<>>, r.res)))

Not(a) ==
    /\ IsDD /\ ops < MaxOps
    /\ Then(factory_not(Factory, a),
            LAMBDA r : Commit(r, Call("not", a, NoEdge, <<>>, r.res)))

\* the number of entries in the memo tables
memo_entries(f) ==
    Cardinality(DOMAIN f.and_cache) + Cardinality(DOMAIN f.or_cache)
        + Cardinality(DOMAIN f.not_cache) + Cardinality(DOMAIN f.i_cache)
        + Cardinality(DOMAIN f.compose_cache)

\* gc(keep); the caller then holds the renamed edges of keep (and the sinks)
Renamed(map, keep) == {rename(map, e).value : e \in {k \in keep : rename(map, k) # None}}

Gc(keep) ==
    /\ Then(gc(Factory, keep), LAMBDA g :
          /\ nodes' = g.f.nodes
          /\ node_to_index' = g.f.node_to_index
          /\ and_cache' = g.f.and_cache
          /\ or_cache' = g.f.or_cache
          /\ not_cache' = g.f.not_cache
          /\ i_cache' = g.f.i_cache
          /\ compose_cache' = g.f.compose_cache
          /\ pool' = Renamed(g.map, keep) \cup {NodeIndex_FALSE, NodeIndex_TRUE}
          /\ last' = [op |-> "gc", a |-> NoEdge, b |-> NoEdge, arg |-> <<>>, res |-> NoEdge,
                      pre_nodes |-> nodes, keep |-> keep, map |-> g.map, held |-> pool,
                      memo |-> memo_entries(Factory)])
    /\ ops' = ops + 1
    /\ UNCHANGED <<kind, irrelevant>>

\* NodeList::node: self.nodes[index - 2] is in bounds
node_in_bounds(f, address) == address - 1 \in 1 .. Len(f.nodes)

\* whether not reads the node of the edge: it is no sink and the not cache misses
not_reads_node(f, index) ==
    /\ ~is_sink(index)
    /\ IF kind = "BDD" THEN index.address \notin DOMAIN f.not_cache
       ELSE <<index.address, 0>> \notin DOMAIN f.not_cache

\* not that panics on every edge that is no sink
not_unrenamed_always_panics(f, index) ==
    IF is_sink(index) THEN factory_not(f, index) ELSE R(f, PANIC)

\* not on an edge whose address may lie outside the store
not_unrenamed(f, index) ==
    IF not_reads_node(f, index) /\ ~node_in_bounds(f, index.address) THEN R(f, PANIC)
    ELSE factory_not(f, index)

\* not(e) as the call after a gc, e an edge the caller held before the gc and did not pass
\* through rename; a panic ends the process. arg is len() when the call is made.
NotUnrenamed(e) ==
    /\ IsDD /\ ops <= MaxOps /\ last.op = "gc" /\ ~is_sink(e)
    /\ Then(not_unrenamed(Factory, e), LAMBDA r :
          /\ nodes' = r.f.nodes
          /\ node_to_index' = r.f.node_to_index
          /\ and_cache' = r.f.and_cache
          /\ or_cache' = r.f.or_cache
          /\ not_cache' = r.f.not_cache
          /\ i_cache' = r.f.i_cache
          /\ compose_cache' = r.f.compose_cache
          /\ pool' = IF r.res = PANIC THEN pool ELSE pool \cup {r.res}
          /\ last' = [last EXCEPT !.op = "not_unrenamed", !.a = e, !.res = r.res,
                                  !.arg = store_len(Factory)]
          /\ ops' = IF r.res = PANIC THEN MaxOps + 1 ELSE ops + 1)
    /\ UNCHANGED <<kind, irrelevant>>

\* the lists of 2 .. NumVariables variables that are not in ascending order
UnsortedLists ==
    {vs \in UNION {[1 .. n -> Variables] : n \in 2 .. NumVariables} :
        \E k \in 1 .. Len(vs) - 1 : vs[k] > vs[k + 1]}

\* exactly_one_of on a list that is not sorted, against the documented requirement; the
\* run ends with this call, and its result is kept in last alone. arg is the list,
\* pre_nodes the store when the call is made.
ExactlyOneOfUnsorted(vs) ==
    /\ IsDD /\ ops < MaxOps
    /\ Then(factory_exactly_one_of(Factory, vs), LAMBDA r :
          /\ nodes' = r.f.nodes
          /\ node_to_index' = r.f.node_to_index
          /\ and_cache' = r.f.and_cache
          /\ or_cache' = r.f.or_cache
          /\ not_cache' = r.f.not_cache
          /\ i_cache' = r.f.i_cache
          /\ compose_cache' = r.f.compose_cache
          /\ pool' = pool
          /\ last' = [Call("exactly_one_of_unsorted", NoEdge, NoEdge, vs, r.res)
                          EXCEPT !.pre_nodes = nodes])
    /\ ops' = MaxOps + 1
    /\ UNCHANGED <<kind, irrelevant>>

Next ==
    \/ \E v \in Variables : SingleVariable(v)
    \/ \E vs \in VariableLists : ExactlyOneOf(vs)
    \/ \E n \in 0 .. NumVariables, vs \in VariableLists : ExactlyNOf(n, vs)
    \/ \E a, b \in pool : And(a, b)
    \/ \E a, b \in pool : Or(a, b)
    \/ \E a \in pool : Not(a)
    \/ \E keep \in SUBSET pool : IsDD /\ ops < MaxOps /\ Gc(keep)
    \/ \E e \in last.held : NotUnrenamed(e)
    \/ \E vs \in UnsortedLists : ExactlyOneOfUnsorted(vs)

Spec == Init /\ [][Next]_vars

(***************************************************************************)
(* Permutation diagrams: PermutationDecisionDiagramFactory<I, A, M> over   *)
(* a ZDDFactory, I one of Swap and LeftRotation (kind).                    *)
(***************************************************************************)
PermutationElement(i, j) == [elem1 |-> i, elem2 |-> j]

\* the rows pushed by PermutationEncodingAsVariables::new for j, j - 1, .., 2
RECURSIVE elements_rows(_)
elements_rows(j) ==
    IF j < 2 THEN <<>>
    ELSE [i \in 1 .. j - 1 |-> PermutationElement(i, j)] \o elements_rows(j - 1)

\* vars.elements; the element of variable v is elements[v + 1]
elements == elements_rows(NumElements)

num_variables == Len(elements)

\* variable counting the skipped rows as if they had n - 1 .. j elements less
encoding_variable_short_rows(n, i, j) ==
    LET rows == n - j
        elements_in_rows == ((n - 1 + rows) * rows) \div 2
    IN i - 1 + elements_in_rows

\* PermutationEncodingAsVariables::variable of an encoding made by new(n)
encoding_variable(n, i, j) ==
    LET rows == n - j
        elements_in_rows == ((n - 1 + n - rows) * rows) \div 2
    IN i - 1 + elements_in_rows

variable(i, j) == encoding_variable(NumElements, i, j)

create(f, v, lo, hi) == add_node_if_not_present(f, Node(v, lo, hi))

perm_and(f, index1, index2) == mul_zdd(f, index1, index2)

perm_or(f, index1, index2) == sum_zdd(f, index1, index2)

RECURSIVE swap(_, _, _, _)
\* swap that also puts the new element above a node of the same second element
swap_element_not_merged(f, node_index, i, j) ==
    IF i = j THEN R(f, node_index)
    ELSE IF i > j THEN swap(f, node_index, j, i)
    ELSE IF is_false(node_index) THEN R(f, NodeIndex_FALSE)
    ELSE IF is_true(node_index)
         THEN Then(create(f, variable(i, j), NodeIndex_FALSE, NodeIndex_TRUE),
                   LAMBDA c : R(c.f, multiply(c.res, node_index.multiplicity)))
    ELSE LET v == variable(i, j)
             n == node_incorporating_multiplicity(f, node_index)
             node_variable == elements[n.variable + 1]
             cache_key == <<node_index, v>>
         IN IF node_variable.elem2 <= j THEN create(f, v, NodeIndex_FALSE, node_index)
            ELSE IF cache_key \in DOMAIN f.i_cache THEN R(f, f.i_cache[cache_key])
            ELSE Then(swap(f, n.lo, i, j), LAMBDA lo :
                 Then(swap(lo.f, n.hi, i,
                           IF j = node_variable.elem2 THEN node_variable.elem1 ELSE j),
                      LAMBDA hi1 :
                 Then(swap(hi1.f, hi1.res,
                           IF node_variable.elem1 = j THEN i
                           ELSE IF node_variable.elem1 = i THEN j
                           ELSE node_variable.elem1,
                           node_variable.elem2), LAMBDA hi :
                 Then(perm_or(hi.f, lo.res, hi.res), LAMBDA res :
                 R([res.f EXCEPT !.i_cache = Insert(@, cache_key, res.res)], res.res)))))

swap(f, node_index, i, j) ==
    IF i = j THEN R(f, node_index)
    ELSE IF i > j THEN swap(f, node_index, j, i)
    ELSE IF is_false(node_index) THEN R(f, NodeIndex_FALSE)
    ELSE IF is_true(node_index)
         THEN Then(create(f, variable(i, j), NodeIndex_FALSE, NodeIndex_TRUE),
                   LAMBDA c : R(c.f, multiply(c.res, node_index.multiplicity)))
    ELSE LET v == variable(i, j)
             n == node_incorporating_multiplicity(f, node_index)
             node_variable == elements[n.variable + 1]
             cache_key == <<node_index, v>>
         IN IF node_variable.elem2 < j THEN create(f, v, NodeIndex_FALSE, node_index)
            ELSE IF cache_key \in DOMAIN f.i_cache THEN R(f, f.i_cache[cache_key])
            ELSE Then(swap(f, n.lo, i, j), LAMBDA lo :
                 Then(swap(lo.f, n.hi, i,
                           IF j = node_variable.elem2 THEN node_variable.elem1 ELSE j),
                      LAMBDA hi1 :
                 Then(swap(hi1.f, hi1.res,
                           IF node_variable.elem1 = j THEN i
                           ELSE IF node_variable.elem1 = i THEN j
                           ELSE node_variable.elem1,
                           node_variable.elem2), LAMBDA hi :
                 Then(perm_or(hi.f, lo.res, hi.res), LAMBDA res :
                 R([res.f EXCEPT !.i_cache = Insert(@, cache_key, res.res)], res.res)))))

\* a failed assert! of left_rot
LeftRotPanic(f) == R(f, PANIC)

RECURSIVE left_rot(_, _, _, _)
\* left_rot that also puts its element above a node with the same right index
left_rot_element_not_merged(f, node_index, l, r) ==
    IF l = r THEN R(f, node_index)
    ELSE IF l > r THEN left_rot(f, node_index, r, l)
    ELSE IF ~(r <= NumElements) THEN LeftRotPanic(f)
    ELSE IF is_false(node_index) THEN R(f, NodeIndex_FALSE)
    ELSE IF is_true(node_index)
         THEN Then(create(f, variable(l, r), NodeIndex_FALSE, NodeIndex_TRUE),
                   LAMBDA c : R(c.f, multiply(c.res, node_index.multiplicity)))
    ELSE LET v == variable(l, r)
             n == node_incorporating_multiplicity(f, node_index)
             node_variable == elements[n.variable + 1]
             cache_key == <<node_index, v>>
             x_prime == IF r < node_variable.elem1 THEN node_variable.elem1
                        ELSE IF r = node_variable.elem1 THEN l
                        ELSE IF l <= node_variable.elem1 THEN node_variable.elem1 + 1
                        ELSE node_variable.elem1
         IN IF node_variable.elem2 <= r THEN create(f, v, NodeIndex_FALSE, node_index)
            ELSE IF cache_key \in DOMAIN f.i_cache THEN R(f, f.i_cache[cache_key])
            ELSE Then(left_rot(f, n.lo, l, r), LAMBDA lo :
                 Then(IF r < node_variable.elem1 THEN left_rot(lo.f, n.hi, l, r)
                      ELSE IF r = node_variable.elem1 THEN R(lo.f, n.hi)
                      ELSE IF l <= node_variable.elem1 THEN left_rot(lo.f, n.hi, l, r - 1)
                      ELSE left_rot(lo.f, n.hi, l - 1, r - 1), LAMBDA hi1 :
                 Then(left_rot(hi1.f, hi1.res, x_prime, node_variable.elem2), LAMBDA hi :
                 Then(perm_or(hi.f, lo.res, hi.res), LAMBDA res :
                 R([res.f EXCEPT !.i_cache = Insert(@, cache_key, res.res)], res.res)))))

left_rot(f, node_index, l, r) ==
    IF l = r THEN R(f, node_index)
    ELSE IF l > r THEN left_rot(f, node_index, r, l)
    ELSE IF ~(r <= NumElements) THEN LeftRotPanic(f)
    ELSE IF is_false(node_index) THEN R(f, NodeIndex_FALSE)
    ELSE IF is_true(node_index)
         THEN Then(create(f, variable(l, r), NodeIndex_FALSE, NodeIndex_TRUE),
                   LAMBDA c : R(c.f, multiply(c.res, node_index.multiplicity)))
    ELSE LET v == variable(l, r)
             n == node_incorporating_multiplicity(f, node_index)
             node_variable == elements[n.variable + 1]
             cache_key == <<node_index, v>>
             x_prime == IF r < node_variable.elem1 THEN node_variable.elem1
                        ELSE IF r = node_variable.elem1 THEN l
                        ELSE IF l <= node_variable.elem1 THEN node_variable.elem1 + 1
                        ELSE node_variable.elem1
         IN IF node_variable.elem2 < r THEN create(f, v, NodeIndex_FALSE, node_index)
            ELSE IF cache_key \in DOMAIN f.i_cache THEN R(f, f.i_cache[cache_key])
            ELSE Then(left_rot(f, n.lo, l, r), LAMBDA lo :
                 Then(IF r < node_variable.elem1 THEN left_rot(lo.f, n.hi, l, r)
                      ELSE IF r = node_variable.elem1 THEN R(lo.f, n.hi)
                      ELSE IF l <= node_variable.elem1 THEN left_rot(lo.f, n.hi, l, r - 1)
                      ELSE left_rot(lo.f, n.hi, l - 1, r - 1), LAMBDA hi1 :
                 Then(left_rot(hi1.f, hi1.res, x_prime, node_variable.elem2), LAMBDA hi :
                 Then(perm_or(hi.f, lo.res, hi.res), LAMBDA res :
                 R([res.f EXCEPT !.i_cache = Insert(@, cache_key, res.res)], res.res)))))

\* swap in a PermutationDecisionDiagramFactory<Swap, ..>, left_rot in a <LeftRotation, ..>
apply_basis(f, node_index, i, j) ==
    IF kind = "Swap" THEN swap(f, node_index, i, j) ELSE left_rot(f, node_index, i, j)

RECURSIVE compose(_, _, _)
\* compose that forgets to apply the element of q's node to the hi branch
compose_element_not_applied(f, p, q) ==
    IF is_false(p) \/ is_false(q) THEN R(f, NodeIndex_FALSE)
    ELSE IF is_true(p) THEN R(f, multiply(q, p.multiplicity))
    ELSE IF is_true(q) THEN R(f, multiply(p, q.multiplicity))
    ELSE LET cache_key == <<p, q>>
             q_node == node_incorporating_multiplicity(f, q)
         IN IF cache_key \in DOMAIN f.compose_cache THEN R(f, f.compose_cache[cache_key])
            ELSE Then(compose(f, p, q_node.lo), LAMBDA lo :
                 Then(compose(lo.f, p, q_node.hi), LAMBDA hi :
                 Then(perm_or(hi.f, lo.res, hi.res), LAMBDA res :
                 R([res.f EXCEPT !.compose_cache = Insert(@, cache_key, res.res)],
                   res.res))))

compose(f, p, q) ==
    IF is_false(p) \/ is_false(q) THEN R(f, NodeIndex_FALSE)
    ELSE IF is_true(p) THEN R(f, multiply(q, p.multiplicity))
    ELSE IF is_true(q) THEN R(f, multiply(p, q.multiplicity))
    ELSE LET cache_key == <<p, q>>
             q_node == node_incorporating_multiplicity(f, q)
             q_var == elements[q_node.variable + 1]
         IN IF cache_key \in DOMAIN f.compose_cache THEN R(f, f.compose_cache[cache_key])
            ELSE Then(compose(f, p, q_node.lo), LAMBDA lo :
                 Then(compose(lo.f, p, q_node.hi), LAMBDA hi0 :
                 Then(apply_basis(hi0.f, hi0.res, q_var.elem1, q_var.elem2), LAMBDA hi :
                 Then(perm_or(hi.f, lo.res, hi.res), LAMBDA res :
                 R([res.f EXCEPT !.compose_cache = Insert(@, cache_key, res.res)],
                   res.res)))))

\* for j in 1..i, at j
RECURSIVE construct_all_permutations_inner(_, _, _, _, _)
construct_all_permutations_inner(f, res, prev, i, j) ==
    IF j >= i THEN R(f, res)
    ELSE Then(apply_basis(f, prev, j, i), LAMBDA extras :
         Then(perm_or(extras.f, res, extras.res), LAMBDA r :
         construct_all_permutations_inner(r.f, r.res, prev, i, j + 1)))

\* for i in 1..=self.vars.n, at i
RECURSIVE construct_all_permutations_outer(_, _, _)
\* construct_all_permutations_outer over 1..n, the last element left out
construct_all_permutations_outer_exclusive(f, res, i) ==
    IF i >= NumElements THEN R(f, res)
    ELSE Then(construct_all_permutations_inner(f, res, res, i, 1), LAMBDA r :
         construct_all_permutations_outer(r.f, r.res, i + 1))

construct_all_permutations_outer(f, res, i) ==
    IF i > NumElements THEN R(f, res)
    ELSE Then(construct_all_permutations_inner(f, res, res, i, 1), LAMBDA r :
         construct_all_permutations_outer(r.f, r.res, i + 1))

construct_all_permutations(f) == construct_all_permutations_outer(f, NodeIndex_TRUE, 1)

(***************************************************************************)
(* The permutation factory: one action for each public mutating call.      *)
(***************************************************************************)
IsPerm == kind \in {"Swap", "LeftRotation"}

Items == 1 .. NumElements

InitPerm ==
    /\ kind \in {"Swap", "LeftRotation"}
    /\ irrelevant \in BOOLEAN
    /\ nodes = <<>>
    /\ node_to_index = EmptyMap
    /\ and_cache = EmptyMap
    /\ or_cache = EmptyMap
    /\ not_cache = EmptyMap
    /\ i_cache = EmptyMap
    /\ compose_cache = EmptyMap
    /\ pool = {NodeIndex_FALSE, NodeIndex_TRUE}
    /\ last = Call("new", NoEdge, NoEdge, <<>>, NoEdge)
    /\ ops = 0

\* swap(a, i, j) in a Swap factory, left_rot(a, i, j) in a LeftRotation factory
ApplyBasis(a, i, j) ==
    /\ IsPerm /\ ops < MaxPermOps
    /\ Then(apply_basis(Factory, a, i, j),
            LAMBDA r : Commit(r, Call("apply_basis", a, NoEdge, <<i, j>>, r.res)))

Compose(p, q) ==
    /\ IsPerm /\ ops < MaxPermOps
    /\ Then(compose(Factory, p, q),
            LAMBDA r : Commit(r, Call("compose", p, q, <<>>, r.res)))

ConstructAllPermutations ==
    /\ IsPerm /\ ops < MaxPermOps
    /\ Then(construct_all_permutations(Factory),
            LAMBDA r : Commit(r, Call("construct_all_permutations", NoEdge, NoEdge, <<>>, r.res)))

PermAnd(a, b) ==
    /\ IsPerm /\ ops < MaxPermOps
    /\ Then(perm_and(Factory, a, b),
            LAMBDA r : Commit(r, Call("and", a, b, <<>>, r.res)))

PermOr(a, b) ==
    /\ IsPerm /\ ops < MaxPermOps
    /\ Then(perm_or(Factory, a, b),
            LAMBDA r : Commit(r, Call("or", a, b, <<>>, r.res)))

PermGc(keep) ==
    /\ IsPerm /\ ops < MaxPermOps
    /\ Gc(keep)

NextPerm ==
    \/ \E a \in pool, i, j \in Items : ApplyBasis(a, i, j)
    \/ \E p, q \in pool : Compose(p, q)
    \/ ConstructAllPermutations
    \/ \E a, b \in pool : PermAnd(a, b)
    \/ \E a, b \in pool : PermOr(a, b)
    \/ \E keep \in SUBSET pool : PermGc(keep)

PermSpec == InitPerm /\ [][NextPerm]_vars

\* a factory of any of the four types, and its public calls
InitAny == Init \/ InitPerm

NextAny == Next \/ NextPerm

AnySpec == InitAny /\ [][NextAny]_vars

(***************************************************************************)
(* What an edge denotes, for stating the properties: the assignments, and  *)
(* the multiplicity of an assignment in an edge (the product of the edge   *)
(* multiplicities on its path, 0 when the path ends in FALSE).             *)
(***************************************************************************)
Assignments == [1 .. NumVariables -> BOOLEAN]

evaluate(f, index, x) ==
    IF kind = "BDD" THEN evaluate_bdd(f, index, x) ELSE evaluate_zdd(f, index, x)

RECURSIVE PathMultiplicity(_, _, _)
PathMultiplicity(f, index, x) ==
    IF is_false(index) THEN 0
    ELSE IF is_true(index) THEN index.multiplicity
    ELSE LET n == node(f, index.address)
         IN index.multiplicity * PathMultiplicity(f, IF x[n.variable + 1] THEN n.hi ELSE n.lo, x)

MultiplicityOf(f, index, x) ==
    IF evaluate(f, index, x) THEN PathMultiplicity(f, index, x) ELSE 0

RECURSIVE SumOver(_, _, _, _)
SumOver(f, index, xs, acc) ==
    IF xs = {} THEN acc
    ELSE LET x == CHOOSE y \in xs : TRUE
         IN SumOver(f, index, xs \ {x}, acc + MultiplicityOf(f, index, x))

Satisfying(f, index) == {x \in Assignments : evaluate(f, index, x)}

factory_number_solutions(f, index) == number_solutions(f, index, NumVariables, kind = "BDD")

\* the factory as it was before the last call, a gc
PreFactory == [Factory EXCEPT !.nodes = last.pre_nodes]

(***************************************************************************)
(* Properties.                                                             *)
(***************************************************************************)

\* C1: in a BDD factory, and(f, g) evaluates on every assignment x to
\* evaluate_bdd(f, x) AND evaluate_bdd(g, x).
C1_AndIsConjunction ==
    (kind = "BDD" /\ last.op = "and") =>
        \A x \in Assignments :
            evaluate_bdd(Factory, last.res, x) =
                (evaluate_bdd(Factory, last.a, x) /\ evaluate_bdd(Factory, last.b, x))

C1_Witness ==
    /\ kind = "BDD" /\ last.op = "and"
    /\ ~is_sink(last.a) /\ ~is_sink(last.b) /\ last.a.address # last.b.address
    /\ ~is_sink(last.res)
    /\ node(Factory, last.a.address).variable # node(Factory, last.b.address).variable

\* C2: in a ZDD factory, or(F, G) evaluates on every assignment x to
\* evaluate_zdd(F, x) OR evaluate_zdd(G, x), also when F or G is the TRUE sink.
C2_OrIsUnion ==
    (kind = "ZDD" /\ last.op = "or") =>
        \A x \in Assignments :
            evaluate_zdd(Factory, last.res, x) =
                (evaluate_zdd(Factory, last.a, x) \/ evaluate_zdd(Factory, last.b, x))

C2_Witness ==
    /\ kind = "ZDD" /\ last.op = "or"
    /\ is_true(last.a) /\ ~is_sink(last.b)
    /\ ~evaluate_zdd(Factory, last.b, [v \in 1 .. NumVariables |-> FALSE])

\* C3 as stated: number_solutions::<u64>(e) equals the number of assignments x on which
\* e evaluates to true.
C3_CountsSatisfyingAssignments ==
    IsDD => \A e \in pool :
        factory_number_solutions(Factory, e) = Cardinality(Satisfying(Factory, e))

\* C3, amended: number_solutions::<u64>(e) equals the number of assignments on which e
\* evaluates to true, each counted with its multiplicity in e (the product of the edge
\* multiplicities on its path); with NoMultiplicity this is the number of such assignments.
C3_CountsWithMultiplicity ==
    IsDD => \A e \in pool :
        /\ factory_number_solutions(Factory, e) = SumOver(Factory, e, Assignments, 0)
        /\ irrelevant =>
               factory_number_solutions(Factory, e) = Cardinality(Satisfying(Factory, e))

C3_Witness ==
    /\ IsDD /\ ~irrelevant
    /\ \E e \in pool :
        /\ ~is_sink(e) /\ e.multiplicity > 1
        /\ ~is_sink(node(Factory, e.address).lo) \/ ~is_sink(node(Factory, e.address).hi)
        /\ factory_number_solutions(Factory, e) > Cardinality(Satisfying(Factory, e))

\* C4: after gc(keep), every edge e of keep is renamed to Some(e') with e's multiplicity,
\* and e' evaluates on every assignment, and counts, as e did before the gc.
C4_GcPreservesKept ==
    (IsDD /\ last.op = "gc") =>
        \A e \in last.keep :
            LET r == rename(last.map, e)
            IN /\ r.tag = "Some"
               /\ r.value.multiplicity = e.multiplicity
               /\ \A x \in Assignments :
                      evaluate(Factory, r.value, x) = evaluate(PreFactory, e, x)
               /\ factory_number_solutions(Factory, r.value) =
                      factory_number_solutions(PreFactory, e)

C4_Witness ==
    /\ IsDD /\ last.op = "gc"
    /\ \E e \in last.keep :
        /\ ~is_sink(e)
        /\ rename(last.map, e).value.address # e.address
        /\ ~is_sink(node(PreFactory, e.address).lo) \/ ~is_sink(node(PreFactory, e.address).hi)

SameFunction(f1, e1, f2, e2) ==
    \A x \in Assignments : evaluate(f1, e1, x) = evaluate(f2, e2, x)

\* C5 as stated: in a BDD or ZDD factory with NoMultiplicity, two edges returned by factory
\* operations that evaluate identically on all assignments are the same edge.
C5_Canonical ==
    (IsDD /\ irrelevant) =>
        \A e1, e2 \in pool : SameFunction(Factory, e1, Factory, e2) => e1 = e2

\* not(not(index)) in the factory as it is: [f, res]
not_not(index) ==
    LET once == factory_not(Factory, index) IN factory_not(once.f, once.res)

AssignmentOfRank(r) ==
    [v \in 1 .. NumVariables |-> (r \div (2 ^ (NumVariables - v))) % 2 = 1]

TrueVariables(x) == SortedSeq({v \in Variables : x[v + 1]})

\* the k-th of the satisfying assignments from rank r on, each counted once
RECURSIVE KthSatisfying(_, _, _, _)
KthSatisfying(f, index, k, r) ==
    IF r >= 2 ^ NumVariables THEN None
    ELSE IF ~evaluate(f, index, AssignmentOfRank(r)) THEN KthSatisfying(f, index, k, r + 1)
    ELSE IF k = 0 THEN Some(TrueVariables(AssignmentOfRank(r)))
    ELSE KthSatisfying(f, index, k - 1, r + 1)

\* the k-th of the satisfying assignments from rank r on, each counted with its multiplicity
RECURSIVE KthWithMultiplicity(_, _, _, _)
KthWithMultiplicity(f, index, k, r) ==
    IF r >= 2 ^ NumVariables THEN None
    ELSE LET m == MultiplicityOf(f, index, AssignmentOfRank(r))
         IN IF k < m THEN Some(TrueVariables(AssignmentOfRank(r)))
            ELSE KthWithMultiplicity(f, index, k - m, r + 1)

factory_find_all_solutions(index) ==
    find_all_solutions(Factory, index, NumVariables, kind = "BDD")

\* C7 as stated: get_ith_solution(k) is None iff k >= N = number_solutions(), and for k < N
\* it is the k-th satisfying assignment in truth-table order; no assertion fails.
C7_IthSolution ==
    IsDD => \A e \in pool :
        LET sf == factory_find_all_solutions(e)
            N == SolutionFinder_number_solutions(Factory, sf)
        IN \A k \in 0 .. N + 1 :
            LET got == get_ith_solution(Factory, sf, k)
            IN /\ got.tag # "panic"
               /\ (got.tag = "None") <=> (k >= N)
               /\ k < N => got = KthSatisfying(Factory, e, k, 0)

\* C7, amended: get_ith_solution(k) is None iff k >= N = number_solutions(), and for k < N it
\* is the k-th entry of the list of satisfying assignments in truth-table order in which
\* each assignment is repeated as many times as its multiplicity (once with NoMultiplicity);
\* no assertion fails.
C7_IthSolutionWithMultiplicity ==
    IsDD => \A e \in pool :
        LET sf == factory_find_all_solutions(e)
            N == SolutionFinder_number_solutions(Factory, sf)
        IN \A k \in 0 .. N + 1 :
            LET got == get_ith_solution(Factory, sf, k)
            IN /\ got.tag # "panic"
               /\ (got.tag = "None") <=> (k >= N)
               /\ k < N => got = KthWithMultiplicity(Factory, e, k, 0)
               /\ (irrelevant /\ k < N) => got = KthSatisfying(Factory, e, k, 0)

C7_Witness ==
    /\ IsDD
    /\ \E e \in pool :
        LET sf == factory_find_all_solutions(e)
            N == SolutionFinder_number_solutions(Factory, sf)
        IN /\ ~is_sink(e) /\ N >= 3
           /\ get_ith_solution(Factory, sf, N - 1).tag = "Some"
           /\ Len(get_ith_solution(Factory, sf, N - 1).value) = NumVariables
           /\ get_ith_solution(Factory, sf, 1).tag = "Some"
           /\ get_ith_solution(Factory, sf, 1).value # get_ith_solution(Factory, sf, 0).value
           /\ get_ith_solution(Factory, sf, N).tag = "None"

(***************************************************************************)
(* What an edge of a permutation factory denotes: each member set of       *)
(* variables is the permutation composed of its elements, the element of   *)
(* the highest variable first.                                             *)
(***************************************************************************)
\* Permutation::compose: the composition pi . sigma = (sigma(pi(1)), .., sigma(pi(n)))
Permutation_compose(pi, sigma) == [k \in Items |-> sigma[pi[k]]]

Identity == [k \in Items |-> k]

\* the transposition of i and j
Tau(i, j) == [k \in Items |-> IF k = i THEN j ELSE IF k = j THEN i ELSE k]

\* the left rotation of positions l..r: (1, .., l-1, l+1, .., r, l, r+1, .., n)
Rho(l, r) == [k \in Items |-> IF k < l \/ k > r THEN k ELSE IF k < r THEN k + 1 ELSE l]

ElementPermutation(e) ==
    IF kind = "Swap" THEN Tau(e.elem1, e.elem2) ELSE Rho(e.elem1, e.elem2)

RECURSIVE PermutationOf(_)
PermutationOf(S) ==
    IF S = {} THEN Identity
    ELSE LET v == CHOOSE x \in S : \A y \in S : y <= x
         IN Permutation_compose(ElementPermutation(elements[v + 1]), PermutationOf(S \ {v}))

PermAssignments == [1 .. num_variables -> BOOLEAN]

TrueSet(x) == {v \in 0 .. num_variables - 1 : x[v + 1]}

Members(f, index) == {TrueSet(x) : x \in {y \in PermAssignments : evaluate_zdd(f, index, y)}}

Denotes(f, index) == {PermutationOf(S) : S \in Members(f, index)}

\* every member set holds at most one element (i, j) for each j: a canonical decomposition
Valid(f, index) ==
    \A S \in Members(f, index) : \A v, w \in S :
        elements[v + 1].elem2 = elements[w + 1].elem2 => v = w

AllPermutations == {p \in [Items -> Items] : \A k \in Items : \E m \in Items : p[m] = k}

RECURSIVE Factorial(_)
Factorial(k) == IF k <= 1 THEN 1 ELSE k * Factorial(k - 1)

\* C8: compose(P, Q) of valid diagrams is a valid diagram of exactly the permutations
\* p . q, p in P, q in Q.
C8_ComposeIsProduct ==
    (IsPerm /\ last.op = "compose" /\ Valid(Factory, last.a) /\ Valid(Factory, last.b)) =>
        /\ Valid(Factory, last.res)
        /\ Denotes(Factory, last.res) =
               {Permutation_compose(p, q) : p \in Denotes(Factory, last.a),
                                            q \in Denotes(Factory, last.b)}

C8_Witness ==
    /\ IsPerm /\ last.op = "compose"
    /\ Valid(Factory, last.a) /\ Valid(Factory, last.b)
    /\ Cardinality(Denotes(Factory, last.a)) >= 2
    /\ Cardinality(Denotes(Factory, last.b)) >= 2
    /\ Cardinality(Denotes(Factory, last.res)) \notin {0, Factorial(NumElements)}
    /\ Denotes(Factory, last.res) \notin {Denotes(Factory, last.a), Denotes(Factory, last.b)}

\* compose(S_n, X) and compose(X, S_n) in the factory as it is, S_n built first
compose_with_all(x) ==
    LET s_n == construct_all_permutations(Factory)
        left == compose(s_n.f, s_n.res, x)
        right == compose(left.f, x, s_n.res)
    IN [s_n |-> s_n.res, f |-> right.f, left |-> left.res, right |-> right.res]

\* C9 as stated: S_n has n! elements, and compose(S_n, X) and compose(X, S_n) return the
\* edge S_n for every non-empty X.
C9_AllPermutationsAbsorb ==
    IsPerm =>
        /\ number_solutions(construct_all_permutations(Factory).f,
                            construct_all_permutations(Factory).res, num_variables, FALSE)
               = Factorial(NumElements)
        /\ \A x \in pool : (Valid(Factory, x) /\ ~is_false(x)) =>
               /\ compose_with_all(x).left = compose_with_all(x).s_n
               /\ compose_with_all(x).right = compose_with_all(x).s_n

\* C9, amended: S_n has n! elements, all the permutations; for every non-empty X,
\* compose(S_n, X) and compose(X, S_n) return S_n's node, with S_n's multiplicity when the
\* factory has NoMultiplicity, and with the number of elements of X, each counted with its
\* multiplicity, when it has u32 multiplicities.
C9_AllPermutationsAbsorbCounted ==
    IsPerm =>
        /\ number_solutions(construct_all_permutations(Factory).f,
                            construct_all_permutations(Factory).res, num_variables, FALSE)
               = Factorial(NumElements)
        /\ Denotes(construct_all_permutations(Factory).f,
                   construct_all_permutations(Factory).res) = AllPermutations
        /\ \A x \in pool : (Valid(Factory, x) /\ ~is_false(x)) =>
               LET c == compose_with_all(x)
                   size == number_solutions(Factory, x, num_variables, FALSE)
               IN /\ c.left.address = c.s_n.address
                  /\ c.right.address = c.s_n.address
                  /\ irrelevant => c.left = c.s_n /\ c.right = c.s_n
                  /\ ~irrelevant => c.left.multiplicity = size /\ c.right.multiplicity = size

C9_Witness ==
    /\ IsPerm
    /\ \E x \in pool :
        /\ Valid(Factory, x) /\ ~is_sink(x)
        /\ Cardinality(Denotes(Factory, x)) >= 2
        /\ Denotes(Factory, x) # AllPermutations
        /\ compose_with_all(x).left.address = compose_with_all(x).s_n.address

\* apply_basis(., i, j) applied k times to index: [f, res]
RECURSIVE apply_basis_times(_, _, _, _, _)
apply_basis_times(f, index, i, j, k) ==
    IF k = 0 THEN R(f, index)
    ELSE LET once == apply_basis(f, index, i, j)
         IN apply_basis_times(once.f, once.res, i, j, k - 1)

\* C10 as stated: in a Swap factory swap(swap(f, i, j), i, j) = f for valid f and
\* 1 <= i < j <= n; in a LeftRotation factory left_rot(., i, i + 2) applied three times to a
\* valid f is f.
C10_BasisOrder ==
    IsPerm => \A e \in pool : Valid(Factory, e) =>
        /\ kind = "Swap" =>
               \A i, j \in Items : i < j => apply_basis_times(Factory, e, i, j, 2).res = e
        /\ kind = "LeftRotation" =>
               \A i \in Items : i + 2 <= NumElements =>
                   apply_basis_times(Factory, e, i, i + 2, 3).res = e

\* the edge C10 promises for f: f, a FALSE edge being given back as NodeIndex::FALSE
BackTo(e) == IF is_false(e) THEN NodeIndex_FALSE ELSE e

\* C10, amended: swap(swap(f, i, j), i, j), and left_rot(., i, i + 2) applied three times
\* to f, return f when f is not a FALSE edge (TRUE with any multiplicity included), and
\* NodeIndex::FALSE, of multiplicity ONE, when f is a FALSE edge of any multiplicity.
C10_BasisOrderUpToFalse ==
    IsPerm => \A e \in pool : Valid(Factory, e) =>
        /\ kind = "Swap" =>
               \A i, j \in Items : i < j =>
                   apply_basis_times(Factory, e, i, j, 2).res = BackTo(e)
        /\ kind = "LeftRotation" =>
               \A i \in Items : i + 2 <= NumElements =>
                   apply_basis_times(Factory, e, i, i + 2, 3).res = BackTo(e)

C10_Witness ==
    /\ IsPerm
    /\ \E e \in pool :
        /\ Valid(Factory, e) /\ ~is_sink(e)
        /\ Cardinality(Denotes(Factory, e)) >= 2
        /\ apply_basis_times(Factory, e, 1, 3, 1).res # e
        /\ apply_basis_times(Factory, e, 1, 3, IF kind = "Swap" THEN 2 ELSE 3).res = e
        /\ elements[node(Factory, e.address).variable + 1].elem2 = 3

(***************************************************************************)
(* Solutions with the fewest true variables, for stating the properties.   *)
(***************************************************************************)
Weight(x) == Cardinality({v \in Variables : x[v + 1]})

MinimumWeight(f, index) ==
    CHOOSE w \in 0 .. NumVariables :
        /\ \E x \in Satisfying(f, index) : Weight(x) = w
        /\ \A x \in Satisfying(f, index) : Weight(x) >= w

MinimumSatisfying(f, index) ==
    {x \in Satisfying(f, index) : Weight(x) = MinimumWeight(f, index)}

\* x avoids the first variable on which x and y differ
Avoids(x, y) ==
    x = y \/ \E v \in Variables : /\ ~x[v + 1] /\ y[v + 1]
                                 /\ \A u \in 0 .. v - 1 : x[u + 1] = y[u + 1]

\* C11: find_satisfying_solution_with_minimum_number_of_variables(e) is None iff e has no
\* satisfying assignment; otherwise it is the ascending list of the true variables of the
\* satisfying assignment with the fewest true variables that, among those, avoids variable
\* 0 if possible, then variable 1 if possible, and so on.
C11_MinimumSolution ==
    IsDD => \A e \in pool :
        LET got == find_satisfying_solution_with_minimum_number_of_variables(Factory, e)
        IN /\ (got = None) <=> (Satisfying(Factory, e) = {})
           /\ got # None =>
                 \E x \in MinimumSatisfying(Factory, e) :
                     /\ got = Some(TrueVariables(x))
                     /\ \A y \in MinimumSatisfying(Factory, e) : Avoids(x, y)

C11_Witness ==
    /\ IsDD
    /\ \E e \in pool :
        LET work == all_shortest_solutions(Factory, e.address + 1)
            n == node(Factory, e.address)
        IN /\ ~is_sink(e)
           /\ work[n.lo.address + 1] < usize_MAX
           /\ work[n.lo.address + 1] > work[n.hi.address + 1] + 1
           /\ find_satisfying_solution_with_minimum_number_of_variables(Factory, e)
                  = Some(<<n.variable>>)
           /\ Cardinality(Satisfying(Factory, e)) >= 3

factory_find_minimal_solutions(index) ==
    find_all_solutions_with_minimal_true_arguments(Factory, index, NumVariables, kind = "BDD")

\* the results of get_ith_solution(k) of a finder for the k below N
IthSolutions(sf, N) == {get_ith_solution(Factory, sf, k) : k \in 0 .. N - 1}

\* C12 as stated: for the finder of find_all_solutions_with_minimal_true_arguments on e,
\* number_solutions() is the number of satisfying assignments of e with the fewest true
\* variables, get_ith_solution(k) is one of them for every k below that number and None
\* for every other k.
C12_MinimalSolutions ==
    IsDD => \A e \in pool :
        LET sf == factory_find_minimal_solutions(e)
            N == SolutionFinder_number_solutions(Factory, sf)
            minimal == MinimumSatisfying(Factory, e)
        IN /\ N = Cardinality(minimal)
           /\ \A k \in 0 .. N + 1 :
                LET got == get_ith_solution(Factory, sf, k)
                IN IF k < Cardinality(minimal)
                   THEN \E x \in minimal : got = Some(TrueVariables(x))
                   ELSE got = None

\* C12, amended: number_solutions() is the number of satisfying assignments of e with the
\* fewest true variables, each counted with its multiplicity (counted once with
\* NoMultiplicity); get_ith_solution(k) is one of them for every k below number_solutions(),
\* every one of them is returned for some such k, and it is None for every other k; no
\* assertion fails.
C12_MinimalSolutionsWithMultiplicity ==
    IsDD => \A e \in pool :
        LET sf == factory_find_minimal_solutions(e)
            N == SolutionFinder_number_solutions(Factory, sf)
            minimal == MinimumSatisfying(Factory, e)
        IN /\ N = SumOver(Factory, e, minimal, 0)
           /\ irrelevant => N = Cardinality(minimal)
           /\ \A k \in 0 .. N + 1 :
                LET got == get_ith_solution(Factory, sf, k)
                IN IF k < N
                   THEN \E x \in minimal : got = Some(TrueVariables(x))
                   ELSE got = None
           /\ IthSolutions(sf, N) = {Some(TrueVariables(x)) : x \in minimal}

C12_Witness ==
    /\ IsDD
    /\ \E e \in pool :
        LET sf == factory_find_minimal_solutions(e)
            N == SolutionFinder_number_solutions(Factory, sf)
        IN /\ ~is_sink(e)
           /\ Cardinality(MinimumSatisfying(Factory, e)) >= 2
           /\ MinimumWeight(Factory, e) >= 1
           /\ Cardinality(Satisfying(Factory, e)) > Cardinality(MinimumSatisfying(Factory, e))
           /\ get_ith_solution(Factory, sf, 0).tag = "Some"
           /\ get_ith_solution(Factory, sf, 1).tag = "Some"
           /\ get_ith_solution(Factory, sf, 0) # get_ith_solution(Factory, sf, 1)
           /\ get_ith_solution(Factory, sf, N) = None

\* the variables of a list that are true in x
TrueOf(vs, x) == {k \in 1 .. Len(vs) : x[vs[k] + 1]}

\* C13: for an ascending list vars, exactly_one_of(vars) in a BDD factory and in a ZDD
\* factory evaluates to true on x iff exactly one of the listed variables is true in x,
\* whatever the other variables; for the empty list it returns FALSE.
C13_ExactlyOneOf ==
    IsDD => \A vs \in VariableLists :
        LET r == factory_exactly_one_of(Factory, vs)
        IN /\ \A x \in Assignments :
                evaluate(r.f, r.res, x) <=> (Cardinality(TrueOf(vs, x)) = 1)
           /\ vs = <<>> => r.res = NodeIndex_FALSE

C13_Witness ==
    /\ IsDD /\ ops >= 2
    /\ last.op = "exactly_one_of" /\ last.arg = <<0, 2>>
    /\ evaluate(Factory, last.res, <<TRUE, TRUE, FALSE>>)
    /\ evaluate(Factory, last.res, <<FALSE, FALSE, TRUE>>)
    /\ ~evaluate(Factory, last.res, <<TRUE, FALSE, TRUE>>)
    /\ ~evaluate(Factory, last.res, <<FALSE, TRUE, FALSE>>)

\* C14: with u32 multiplicities or is the multiset sum: the multiplicity of every assignment
\* in or(f, g) is its multiplicity in f plus its multiplicity in g, and number_solutions of
\* or(f, g) is number_solutions(f) + number_solutions(g), also when an operand is TRUE.
C14_OrIsMultisetSum ==
    (IsDD /\ ~irrelevant) => \A a, b \in pool :
        LET r == factory_or(Factory, a, b)
        IN /\ \A x \in Assignments :
                MultiplicityOf(r.f, r.res, x)
                    = MultiplicityOf(Factory, a, x) + MultiplicityOf(Factory, b, x)
           /\ factory_number_solutions(r.f, r.res)
                  = factory_number_solutions(Factory, a) + factory_number_solutions(Factory, b)

C14_Witness ==
    /\ IsDD /\ ~irrelevant /\ last.op = "or"
    /\ is_true(last.a) /\ ~is_sink(last.b) /\ ~is_sink(last.res)
    /\ \E x \in Assignments : MultiplicityOf(Factory, last.res, x) >= 2
    /\ \E x \in Assignments : MultiplicityOf(Factory, last.res, x) = 1
    /\ factory_number_solutions(Factory, last.res)
           = factory_number_solutions(Factory, last.a) + factory_number_solutions(Factory, last.b)

AllFalse == [v \in 1 .. NumVariables |-> FALSE]

\* C16 as stated: for every edge f of a BDD or a ZDD factory, or(f, FALSE) returns f and
\* and(f, TRUE) returns f.
C16_Identities ==
    IsDD => \A e \in pool :
        /\ factory_or(Factory, e, NodeIndex_FALSE).res = e
        /\ factory_and(Factory, e, NodeIndex_TRUE).res = e

\* C16, amended: or(f, FALSE) returns f for every edge f that is not FALSE, and FALSE with
\* the multiplicities added (ONE with NoMultiplicity) for a FALSE edge; in a BDD factory
\* and(f, TRUE) returns f for every f that is not FALSE, and NodeIndex::FALSE for a FALSE
\* edge; in a ZDD factory and(f, TRUE) returns a sink edge that keeps of f the assignment
\* with every variable false, with its multiplicity in f, and nothing else.
C16_IdentitiesByKind ==
    IsDD => \A e \in pool :
        LET sum == factory_or(Factory, e, NodeIndex_FALSE).res
            mul == factory_and(Factory, e, NodeIndex_TRUE)
        IN /\ ~is_false(e) => sum = e
           /\ is_false(e) =>
                  sum = NodeIndex(A_FALSE, M_combine_or(e.multiplicity, M_ONE))
           /\ (kind = "BDD" /\ ~is_false(e)) => mul.res = e
           /\ is_false(e) => mul.res = NodeIndex_FALSE
           /\ kind = "ZDD" =>
                  /\ is_sink(mul.res)
                  /\ \A x \in Assignments :
                        MultiplicityOf(mul.f, mul.res, x)
                            = IF x = AllFalse THEN MultiplicityOf(Factory, e, x) ELSE 0

C16_Witness ==
    /\ IsDD
    /\ last.op = "and" /\ last.b = NodeIndex_TRUE /\ ~is_sink(last.a)
    /\ kind = "BDD" => last.res = last.a
    /\ kind = "ZDD" => is_true(last.res) /\ Cardinality(Satisfying(Factory, last.a)) >= 2
    /\ factory_or(Factory, last.a, NodeIndex_FALSE).res = last.a

\* single_variable_zdd(0, 2) on the store as it is: the call of ZDDFactory::single_variable
\* in a factory over 2 variables
single_variable_zdd_0_of_2 == single_variable_zdd(Factory, 0, 2)

\* the assignments over 2 variables that evaluate_zdd accepts for an edge
Accepted2(r) == {x \in [1 .. 2 -> BOOLEAN] : evaluate_zdd(r.f, r.res, x)}

\* C17 as stated: in a ZDD over 2 variables single_variable_zdd(0) has number_solutions 1 and
\* evaluate_zdd accepts only the assignment [true, false].
C17_SingleVariableZdd ==
    kind = "ZDD" =>
        LET r == single_variable_zdd_0_of_2
        IN /\ number_solutions(r.f, r.res, 2, FALSE) = 1
           /\ Accepted2(r) = {<<TRUE, FALSE>>}

\* C17, amended: in a ZDD over 2 variables single_variable_zdd(0) has number_solutions 2 and
\* evaluate_zdd accepts exactly the assignments [true, false] and [true, true].
C17_SingleVariableZddAnyOther ==
    kind = "ZDD" =>
        LET r == single_variable_zdd_0_of_2
        IN /\ number_solutions(r.f, r.res, 2, FALSE) = 2
           /\ Accepted2(r) = {<<TRUE, FALSE>>, <<TRUE, TRUE>>}

C17_Witness ==
    /\ kind = "ZDD" /\ nodes = <<>>
    /\ store_len(single_variable_zdd_0_of_2.f) = 2
    /\ evaluate_zdd(single_variable_zdd_0_of_2.f, single_variable_zdd_0_of_2.res, <<TRUE, TRUE>>)
    /\ number_solutions(single_variable_zdd_0_of_2.f, single_variable_zdd_0_of_2.res, 2, FALSE) = 2

\* the pairs (i, j) of an encoding over n items
Pairs(n) == {p \in (1 .. n) \X (1 .. n) : p[1] < p[2]}

\* C18 as stated: for every n and 1 <= i < j <= n, variable(i, j) is
\* i - 1 + (n-1 + n-j)*(n-j)/2, the position of element (i, j) in the elements list (pairs
\* grouped by descending j, ascending i within a group), so variable is a bijection onto
\* 0..n(n-1)/2.
C18_VariableFormula ==
    IsPerm => \A n \in 2 .. MaxEncoding :
        /\ \A p \in Pairs(n) :
              /\ encoding_variable(n, p[1], p[2])
                     = p[1] - 1 + ((n - 1 + n - p[2]) * (n - p[2])) \div 2
              /\ elements_rows(n)[encoding_variable(n, p[1], p[2]) + 1]
                     = PermutationElement(p[1], p[2])
        /\ {encoding_variable(n, p[1], p[2]) : p \in Pairs(n)} = 0 .. (n * (n - 1)) \div 2 - 1

\* C18, amended: for every n and 1 <= i < j <= n, variable(i, j) is
\* i - 1 + (n-1 + j)*(n-j)/2, the position of element (i, j) in the elements list, in which
\* the pairs are grouped by descending j and ascending i within a group, so variable is a
\* bijection from the pairs onto 0 .. n(n-1)/2 - 1.
C18_VariableIsPosition ==
    IsPerm => \A n \in 2 .. MaxEncoding :
        /\ \A p \in Pairs(n) :
              /\ encoding_variable(n, p[1], p[2])
                     = p[1] - 1 + ((n - 1 + p[2]) * (n - p[2])) \div 2
              /\ elements_rows(n)[encoding_variable(n, p[1], p[2]) + 1]
                     = PermutationElement(p[1], p[2])
        /\ {encoding_variable(n, p[1], p[2]) : p \in Pairs(n)} = 0 .. (n * (n - 1)) \div 2 - 1
        /\ Len(elements_rows(n)) = (n * (n - 1)) \div 2
        /\ \A v, w \in 1 .. Len(elements_rows(n)) : v < w =>
              \/ elements_rows(n)[v].elem2 > elements_rows(n)[w].elem2
              \/ /\ elements_rows(n)[v].elem2 = elements_rows(n)[w].elem2
                 /\ elements_rows(n)[v].elem1 < elements_rows(n)[w].elem1

C18_Witness ==
    /\ IsPerm /\ last.op = "apply_basis" /\ last.arg = <<1, 2>> /\ is_true(last.a)
    /\ node(Factory, last.res.address).variable = variable(1, 2)
    /\ variable(1, 2) = 2
    /\ elements[variable(1, 2) + 1] = PermutationElement(1, 2)

\* the non-sink addresses of a node list reachable from a set of non-sink addresses
RECURSIVE ReachableFrom(_, _)
ReachableFrom(ns, S) ==
    LET children == {ns[a - 1].lo.address : a \in S} \cup {ns[a - 1].hi.address : a \in S}
        more == S \cup {a \in children : a \notin {A_FALSE, A_TRUE}}
    IN IF more = S THEN S ELSE ReachableFrom(ns, more)

\* the non-sink addresses of the store before the last gc reachable from its keep
Kept == ReachableFrom(last.pre_nodes, {e.address : e \in {k \in last.keep : ~is_sink(k)}})

\* C19: after gc(keep) the store holds exactly the nodes reachable from the edges of keep:
\* len() is the number of distinct non-sink addresses reachable from keep, kept nodes retain
\* their relative address order, and rename(e) is None exactly when the address of e was a
\* non-sink address not reachable from keep.
C19_GcKeepsReachable ==
    (IsDD /\ last.op = "gc") =>
        /\ store_len(Factory) = Cardinality(Kept)
        /\ \A a, b \in Kept : a < b => last.map[a + 1] < last.map[b + 1]
        /\ \A a \in Kept :
              /\ last.map[a + 1] \in 2 .. store_len(Factory) + 1
              /\ node(Factory, last.map[a + 1]).variable = last.pre_nodes[a - 1].variable
        /\ \A a \in 0 .. Len(last.pre_nodes) + 1, m \in 1 .. 2 :
              (rename(last.map, NodeIndex(a, m)) = None)
                  <=> (a \notin {A_FALSE, A_TRUE} /\ a \notin Kept)

C19_Witness ==
    /\ IsDD /\ last.op = "gc"
    /\ Cardinality(Kept) >= 2
    /\ Cardinality(Kept) < Len(last.pre_nodes)
    /\ \E a \in Kept : a \notin {k.address : k \in last.keep}
    /\ \E a \in Kept : last.map[a + 1] # a
    /\ \E a \in 2 .. Len(last.pre_nodes) + 1 : rename(last.map, NodeIndex(a, 1)) = None

ChildrenBelow(ns) ==
    \A p \in 1 .. Len(ns) : ns[p].lo.address < p + 1 /\ ns[p].hi.address < p + 1

\* every child that is a node has a higher variable than its parent
VariablesIncrease(ns) ==
    \A p \in 1 .. Len(ns) : \A c \in {ns[p].lo, ns[p].hi} :
        ~is_sink(c) => ns[c.address - 1].variable > ns[p].variable

Distinct(vs) == \A i, j \in 1 .. Len(vs) : vs[i] = vs[j] => i = j

WithinContract == last.op # "exactly_one_of_unsorted"

C23_NoDuplicateNodes ==
    \A p, q \in 1 .. Len(nodes) : nodes[p] = nodes[q] => p = q

\* not(a) answered with a node stored before a's node: it was found, not added
C23_Witness ==
    /\ kind = "BDD" /\ last.op = "not" /\ ~is_sink(last.a) /\ ~is_sink(last.res)
    /\ last.res.address < last.a.address
    /\ Len(nodes) >= 2


\* C24: in a factory with u32 multiplicities, after every public call, every stored node
\* whose children are both not FALSE has gcd(lo.multiplicity, hi.multiplicity) = 1, and a
\* stored node with a FALSE child has multiplicity ONE on both child edges.
C24_StoredGcdIsOne ==
    ~irrelevant =>
        \A p \in 1 .. Len(nodes) :
            IF is_false(nodes[p].lo) \/ is_false(nodes[p].hi)
            THEN nodes[p].lo.multiplicity = M_ONE /\ nodes[p].hi.multiplicity = M_ONE
            ELSE compute_gcd(nodes[p].lo.multiplicity, nodes[p].hi.multiplicity) = 1

\* and(2*f, 2*f) in a ZDD: a node (v, 4*c, 4*c) is asked for, found as (v, c, c), and the
\* factor 4 moves to the edge
C24_Witness ==
    /\ ~irrelevant /\ kind = "ZDD" /\ last.op = "and"
    /\ ~is_sink(last.res) /\ last.res.multiplicity = 4
    /\ \E p \in 1 .. Len(nodes) :
          /\ ~is_false(nodes[p].lo) /\ ~is_false(nodes[p].hi)
          /\ nodes[p].lo.address = nodes[p].hi.address


\* C25: BDD reduction: after any sequence of BDDFactory operations (single_variable,
\* exactly_one_of, exactly_n_of, and, or, not, gc), with or without multiplicities, no
\* stored node has lo equal to hi (same address and same multiplicity).
C25_BddReduced ==
    (kind = "BDD" /\ WithinContract) =>
        \A p \in 1 .. Len(nodes) : nodes[p].lo # nodes[p].hi


\* C26: ZDD reduction: after any sequence of ZDDFactory operations (single_variable,
\* exactly_one_of, and, or, not, gc), no stored node has a hi edge whose address is FALSE.
C26_ZddReduced ==
    (kind = "ZDD" /\ WithinContract) =>
        \A p \in 1 .. Len(nodes) : ~is_false(nodes[p].hi)


\* the child edges of the stored nodes
ChildEdges == UNION {{nodes[p].lo, nodes[p].hi} : p \in 1 .. Len(nodes)}

Returned == last.op \notin {"new", "gc"} /\ last.res # PANIC

\* C27, as stated: in a factory with u32 multiplicities every returned edge and every child
\* edge of a stored node whose address is a sink has multiplicity ONE, so a result that
\* denotes the empty set is NodeIndex::FALSE.
C27_SinksCarryOne ==
    (IsDD /\ ~irrelevant /\ WithinContract) =>
        /\ \A c \in ChildEdges : is_sink(c) => c.multiplicity = M_ONE
        /\ Returned =>
              /\ is_sink(last.res) => last.res.multiplicity = M_ONE
              /\ Satisfying(Factory, last.res) = {} => last.res = NodeIndex_FALSE

\* C27: in a factory with u32 multiplicities every child edge of a stored node whose
\* address is FALSE has multiplicity ONE; the constructors and not return a sink edge only
\* with multiplicity ONE, and in a BDD factory and returns a FALSE edge only as
\* NodeIndex::FALSE. or returns a FALSE edge exactly when both operands are FALSE edges,
\* with the sum of their multiplicities; a TRUE edge, returned or stored as a child, may
\* carry any multiplicity, which is then the multiplicity of every assignment it accepts.
C27_FalseCarriesOne ==
    (IsDD /\ ~irrelevant /\ WithinContract) =>
        /\ \A c \in ChildEdges : is_false(c) => c.multiplicity = M_ONE
        /\ (Returned /\ last.op \notin {"or", "and"} /\ is_sink(last.res))
              => last.res.multiplicity = M_ONE
        /\ (kind = "BDD" /\ last.op = "and" /\ is_false(last.res))
              => last.res = NodeIndex_FALSE
        /\ (last.op = "or" /\ is_false(last.res)) =>
              /\ is_false(last.a) /\ is_false(last.b)
              /\ last.res.multiplicity = last.a.multiplicity + last.b.multiplicity
        /\ (last.op = "or" /\ is_false(last.a) /\ is_false(last.b)) => is_false(last.res)
        /\ (Returned /\ is_true(last.res)) =>
              \A x \in Assignments :
                  MultiplicityOf(Factory, last.res, x) \in {0, last.res.multiplicity}

\* or(TRUE, TRUE) = 2*TRUE is held, and a stored node has a TRUE child of multiplicity 2
C27_Witness ==
    /\ ~irrelevant /\ NodeIndex(A_TRUE, 2) \in pool
    /\ \E c \in ChildEdges : is_true(c) /\ c.multiplicity = 2
    /\ \E c \in ChildEdges : is_false(c)


\* the edges the memo tables hold as answers
MemoizedEdges ==
    {and_cache[k] : k \in DOMAIN and_cache} \cup {or_cache[k] : k \in DOMAIN or_cache}
        \cup {NodeIndex(not_cache[k], M_ONE) : k \in DOMAIN not_cache}
        \cup {i_cache[k] : k \in DOMAIN i_cache}
        \cup {compose_cache[k] : k \in DOMAIN compose_cache}

Stored(e) == is_sink(e) \/ node_in_bounds(Factory, e.address)

\* C28: immediately after gc the and, or and not memo tables are empty, and in a
\* permutation factory the I-operation and compose tables as well; so no answer memoized
\* before a gc is returned after it: every edge a memo table holds is an edge of the store
\* as it is now, and every entry of the and and or tables of a BDD or ZDD factory is the
\* product, or the sum, of its two keys in the store as it is now.
C28_GcClearsMemo ==
    /\ last.op = "gc" =>
          /\ and_cache = EmptyMap /\ or_cache = EmptyMap /\ not_cache = EmptyMap
          /\ i_cache = EmptyMap /\ compose_cache = EmptyMap
    /\ WithinContract => \A e \in MemoizedEdges : Stored(e)
    /\ (IsDD /\ WithinContract) =>
          /\ \A k \in DOMAIN and_cache : Stored(k[1]) /\ Stored(k[2]) /\ \A x \in Assignments :
                IF irrelevant
                THEN evaluate(Factory, and_cache[k], x)
                         = (evaluate(Factory, k[1], x) /\ evaluate(Factory, k[2], x))
                ELSE MultiplicityOf(Factory, and_cache[k], x)
                         = MultiplicityOf(Factory, k[1], x) * MultiplicityOf(Factory, k[2], x)
          /\ \A k \in DOMAIN or_cache : Stored(k[1]) /\ Stored(k[2]) /\ \A x \in Assignments :
                IF irrelevant
                THEN evaluate(Factory, or_cache[k], x)
                         = (evaluate(Factory, k[1], x) \/ evaluate(Factory, k[2], x))
                ELSE MultiplicityOf(Factory, or_cache[k], x)
                         = MultiplicityOf(Factory, k[1], x) + MultiplicityOf(Factory, k[2], x)

\* a gc that found entries in the memo tables and dropped nodes
C28_Witness ==
    /\ last.op = "gc" /\ last.memo > 0 /\ memo_entries(Factory) = 0
    /\ nodes # <<>> /\ Len(nodes) < Len(last.pre_nodes)


\* C29: in a Swap or LeftRotation factory, every member set of every diagram produced from
\* TRUE / FALSE by swap / left_rot, compose, or, and and construct_all_permutations holds at
\* most one basis variable (i, j) for each right index j.
C29_DiagramsValid ==
    IsPerm => \A e \in pool : Valid(Factory, e)

\* a basis element applied to a node whose variable has the same or a higher right index,
\* with a member of two elements in the result
C29_Witness ==
    /\ IsPerm /\ last.op = "apply_basis" /\ ~is_sink(last.a) /\ ~is_sink(last.res)
    /\ last.arg[1] # last.arg[2]
    /\ \A k \in 1 .. 2 :
          elements[node(Factory, last.a.address).variable + 1].elem2 >= last.arg[k]
    /\ \E S \in Members(Factory, last.res) : Cardinality(S) >= 2


\* the same store held as a NodeList: the node vector alone
NodeListOf(f) == [f EXCEPT !.lookup = FALSE, !.node_to_index = EmptyMap]

\* two results of one call: the same edge, the same len() and the same node vector
SameResult(fast, slow) ==
    /\ fast.res = slow.res
    /\ store_len(fast.f) = store_len(slow.f)
    /\ fast.f.nodes = slow.f.nodes

\* node_to_index is the inverse of the node vector: address i + 2 for the node at position i
IndexIsInverse(f) ==
    /\ DOMAIN f.node_to_index = {f.nodes[p] : p \in 1 .. Len(f.nodes)}
    /\ \A p \in 1 .. Len(f.nodes) : f.node_to_index[f.nodes[p]] = p + 1

\* C30: the same sequence of operations (constructors, and / or / not, gc) on a NodeList
\* and on a NodeListWithFastLookup gives at every step the same returned edge, the same
\* len() and the same node vector: from equal stores every call does, so the stores stay
\* equal. The fast store's node_to_index is always the inverse of its node vector, also
\* after gc.
C30_StoresAgree ==
    (IsDD /\ WithinContract) =>
        /\ IndexIsInverse(Factory)
        /\ ops <= MaxOps =>
              /\ \A v \in Variables :
                    SameResult(factory_single_variable(Factory, v),
                               factory_single_variable(NodeListOf(Factory), v))
              /\ \A vs \in VariableLists :
                    SameResult(factory_exactly_one_of(Factory, vs),
                               factory_exactly_one_of(NodeListOf(Factory), vs))
              /\ \A a, b \in pool :
                    /\ SameResult(factory_and(Factory, a, b),
                                  factory_and(NodeListOf(Factory), a, b))
                    /\ SameResult(factory_or(Factory, a, b),
                                  factory_or(NodeListOf(Factory), a, b))
              /\ \A a \in pool :
                    SameResult(factory_not(Factory, a), factory_not(NodeListOf(Factory), a))
              /\ \A keep \in SUBSET pool :
                    LET fast == gc(Factory, keep)
                        slow == gc(NodeListOf(Factory), keep)
                    IN /\ fast.map = slow.map /\ fast.f.nodes = slow.f.nodes
                       /\ IndexIsInverse(fast.f)

\* after a gc that dropped nodes, a constructor finds its node in the compacted store,
\* by position in the NodeList and through node_to_index in the fast store
C30_Witness ==
    /\ IsDD /\ ops <= MaxOps /\ last.op = "gc"
    /\ 0 < Len(nodes) /\ Len(nodes) < Len(last.pre_nodes)
    /\ \E v \in Variables :
          /\ ~is_sink(factory_single_variable(NodeListOf(Factory), v).res)
          /\ factory_single_variable(NodeListOf(Factory), v).f.nodes = nodes
          /\ factory_single_variable(Factory, v).f.nodes = nodes

====
